---- MODULE Spec2Model ----
(***************************************************************************)
(* The Discord gateway client of features/nuwani/discord: DiscordSocket    *)
(* (the connect-retry loop over the raw WebSocket) and DiscordConnection   *)
(* (the gateway state machine with its heartbeat monitor).                 *)
(*                                                                         *)
(* Every suspended async function (a retry loop, a heartbeat monitor) is a *)
(* record with its position and the delay it waits on; its Symbol token is *)
(* its index, so two tokens are equal only when they are the same Symbol.  *)
(* JavaScript runs each continuation to its next await without             *)
(* interleaving, so one action is one such run.  A wait() may end at any   *)
(* moment relative to the other events: the order of the wake-ups is free. *)
(*                                                                         *)
(* Further sections model the ReactionTests feature with its timers, the   *)
(* HouseManager with its database awaits, and the Runtime of the IRC bots. *)
(* Each has its own initial state and specification; the variables of the  *)
(* components a specification leaves out keep their initial values.        *)
(***************************************************************************)
EXTENDS Integers, Sequences, FiniteSets, TLC

\* ---------------------------------------------------------------- bounds
MaxLoops == 2
MaxMonitors == 2
MaxAttempts == 2
MaxRetryAttempts == 3
MaxWrites == 1
MaxTime == 1
MaxWatchdogWrites == 2
MaxLocations == 1
MaxCalls == 2
MaxBots == 3

\* ------------------------------------------------------------- constants
Null == 0 - 1
kMinimumHeartbeatMonitorMs == 10000
kDefaultHeartbeatIntervalMs == 41250

kOpcodeDispatch == 0
kOpcodeHeartbeat == 1
kOpcodeHeartbeatAck == 11
kOpcodeHello == 10
kOpcodeIdentify == 2
kOpcodeInvalidSession == 9
kOpcodeReconnect == 7
kOpcodeResume == 6
kOpcodeUnknown == 5

kStateConnected == "connected"
kStateConnecting == "connecting"
kStateDisconnecting == "disconnecting"
kStateDisconnected == "disconnected"

\* The heartbeat_interval values a Hello is received with; Null is a Hello
\* without the field.
HelloIntervals == {Null, 9999, kMinimumHeartbeatMonitorMs, kDefaultHeartbeatIntervalMs}

Opcodes ==
    {kOpcodeDispatch, kOpcodeHeartbeat, kOpcodeHeartbeatAck, kOpcodeHello,
     kOpcodeInvalidSession, kOpcodeReconnect, kOpcodeUnknown}

VARIABLES
    connect_,                \* DiscordConnection.#connect_
    connected_,              \* DiscordConnection.#connected_
    connecting_,             \* DiscordConnection.#connecting_
    heartbeatAckTime_,       \* DiscordConnection.#heartbeatAckTime_
    heartbeatIntervalMs_,    \* DiscordConnection.#heartbeatIntervalMs_
    heartbeatMonitorToken_,  \* DiscordConnection.#heartbeatMonitorToken_
    released,                \* DiscordConnection.#socket_ === null (after dispose)
    connectionToken_,        \* DiscordSocket.#connectionToken_
    disposed_,               \* DiscordSocket.#disposed_
    failedRequests,          \* BackoffPolicy: consecutive failed requests
    socketState,             \* the raw socket's state
    loops,                   \* the DiscordSocket.connect invocations
    monitors,                \* the DiscordConnection.heartbeatMonitor invocations
    now,                     \* server.clock.monotonicallyIncreasingTime()
    writeCalls,              \* messages handed to DiscordSocket.write
    transportWritten,        \* messages handed to the raw socket's write
    thrown,                  \* the errors thrown so far
    last,                    \* the operation that led to this state
    settings,                \* the playground/reaction_test_* settings
    activeTest_,             \* ReactionTests.activeTest_
    activeTestStart_,        \* ReactionTests.activeTestStart_
    activeTestToken_,        \* ReactionTests.activeTestToken_
    activeTestWinnerName_,   \* ReactionTests.activeTestWinnerName_
    activeTestWinnerTime_,   \* ReactionTests.activeTestWinnerTime_
    reactionTests,           \* player.account.reactionTests of each player
    timers,                  \* the pending wait() calls of ReactionTests
    delayForNextTest,        \* the last result of calculateDelayForNextTest
    handled,                 \* the last result of onPlayerText
    sent,                    \* the messages sent by the last operation
    timedOutAt,              \* when the test last cleared timed out
    skipped,                 \* a due test was skipped since the last start
    reactionTestsDisposed,   \* ReactionTests.dispose has been called
    locations_,              \* HouseManager.locations_
    houseSettings,           \* the house of each HouseLocation, if any
    calls,                   \* the HouseManager calls made so far
    databaseCalls,           \* the HouseDatabase calls made so far
    entered,                 \* the HouseEntranceController.enterHouse calls
    configuration_,          \* Runtime.configuration_.bots
    activeBots_,             \* Runtime.activeBots_, in insertion order
    availableBots_,          \* Runtime.availableBots_, in insertion order
    botCalls,                \* the last connect/disconnect call made to each bot
    runtimeDisposed          \* Runtime.observers_ === null (after dispose)

connVars ==
    <<connect_, connected_, connecting_, heartbeatAckTime_, heartbeatIntervalMs_,
      heartbeatMonitorToken_, released>>
sockVars == <<connectionToken_, disposed_, failedRequests, socketState>>
taskVars == <<loops, monitors, now>>
histVars == <<writeCalls, transportWritten, thrown, last>>
reactionVars ==
    <<settings, activeTest_, activeTestStart_, activeTestToken_, activeTestWinnerName_,
      activeTestWinnerTime_, reactionTests, timers, delayForNextTest, handled, sent,
      timedOutAt, skipped, reactionTestsDisposed>>
houseVars == <<locations_, houseSettings, calls, databaseCalls, entered>>
runtimeVars ==
    <<configuration_, activeBots_, availableBots_, botCalls, runtimeDisposed>>
vars ==
    <<connVars, sockVars, taskVars, histVars, reactionVars, houseVars, runtimeVars>>

LoopIds == 1..MaxLoops
MonitorIds == 1..MaxMonitors

Min(a, b) == IF a < b THEN a ELSE b

\* -------------------------------------------------------- BackoffPolicy
kBackoffInitialDelayMs == 1000
kBackoffMaximumDelayMs == 4000
RECURSIVE Pow2(_)
Pow2(n) == IF n = 0 THEN 1 ELSE 2 * Pow2(n - 1)

\* Idle: no delay.  After n consecutive failures: the initial delay doubled
\* n - 1 times, capped at the maximum.
getTimeToNextRequestMs(failed) ==
    IF failed = 0 THEN 0
    ELSE Min(kBackoffMaximumDelayMs, kBackoffInitialDelayMs * Pow2(failed - 1))
markRequestSuccessful(failed) == 0
markRequestFailed(failed) == failed + 1
resetToIdle(failed) == 0

\* --------------------------------------------------------------- Init
\* pc: "unused", "initialWait" (line 57), "open" (line 68), "retryWait"
\* (line 103), "returned".  delay is the time the loop waits or last waited;
\* opens counts its open() calls, which is the local attempt plus one;
\* cancelled records that disconnect() was called while the loop was suspended.
NoLoop ==
    [pc |-> "unused", delay |-> 0, opens |-> 0, result |-> "none", cancelled |-> FALSE]
\* pc: "unused", "wait" (line 174), "threw" (line 171), "returned" (line 178).
\* delay is the time the monitor waits on; cancelled records that disconnect()
\* was called while the monitor was waiting.
NoMonitor == [pc |-> "unused", delay |-> 0, cancelled |-> FALSE]

\* The gateway client as constructed.
InitClient ==
    /\ connect_ = FALSE
    /\ connected_ = FALSE
    /\ connecting_ = FALSE
    /\ heartbeatAckTime_ = Null
    /\ heartbeatIntervalMs_ = Null
    /\ heartbeatMonitorToken_ = Null
    /\ released = FALSE
    /\ connectionToken_ = Null
    /\ disposed_ = FALSE
    /\ failedRequests = 0
    /\ socketState = kStateDisconnected
    /\ loops = [l \in LoopIds |-> NoLoop]
    /\ monitors = [m \in MonitorIds |-> NoMonitor]
    /\ now = 0
    /\ writeCalls = <<>>
    /\ transportWritten = <<>>
    /\ thrown = {}
    /\ last = "init"

Players == {"Gunther", "Lucy"}
\* activeTestWinnerName_ while it is null.
NoWinner == ""
NoSettings == [delay |-> 0, jitter |-> 0, expire |-> 0]

\* The ReactionTests feature is not loaded: nothing is scheduled.
InitNoReactionTests ==
    /\ settings = NoSettings
    /\ activeTest_ = Null
    /\ activeTestStart_ = Null
    /\ activeTestToken_ = 0
    /\ activeTestWinnerName_ = NoWinner
    /\ activeTestWinnerTime_ = Null
    /\ reactionTests = [p \in Players |-> 0]
    /\ timers = <<>>
    /\ delayForNextTest = Null
    /\ handled = FALSE
    /\ sent = <<>>
    /\ timedOutAt = Null
    /\ skipped = FALSE
    /\ reactionTestsDisposed = FALSE

\* The houses feature is not loaded: no locations, no calls.
Locations == 1..MaxLocations
NoHouse == ""
InitNoHouses ==
    /\ locations_ = {}
    /\ houseSettings = [location \in Locations |-> NoHouse]
    /\ calls = <<>>
    /\ databaseCalls = 0
    /\ entered = {}

\* No Runtime has been constructed: no bot exists.
InitNoRuntime ==
    /\ configuration_ = <<>>
    /\ activeBots_ = <<>>
    /\ availableBots_ = <<>>
    /\ botCalls = <<>>
    /\ runtimeDisposed = FALSE

Init ==
    /\ InitClient
    /\ InitNoReactionTests
    /\ InitNoHouses
    /\ InitNoRuntime


\* ------------------------------------------------------- raw socket
\* open() leaves the socket connecting until the attempt is decided.
SocketOpen == kStateConnecting
\* The decided attempt: connected, or back to disconnected.
SocketOpened(connected) == IF connected THEN kStateConnected ELSE kStateDisconnected
\* close() ends the connection, whatever state it was in.
SocketClose == kStateDisconnected

\* ---------------------------------------------------- DiscordSocket
Suspended(l) == loops[l].pc \in {"initialWait", "open", "retryWait"}
FirstUnused(l) ==
    /\ loops[l].pc = "unused"
    /\ \A k \in LoopIds : k < l => loops[k].pc # "unused"

\* DiscordSocket.connect up to its first await.
SocketConnect ==
    IF connectionToken_ # Null
    THEN /\ thrown' = thrown \cup {"A connection attempt is already in progress."}
         /\ UNCHANGED <<connectionToken_, loops>>
    ELSE /\ \E l \in LoopIds :
              /\ FirstUnused(l)
              /\ connectionToken_' = l
              /\ loops' = [loops EXCEPT ![l] =
                     [NoLoop EXCEPT !.pc = "initialWait",
                                    !.delay = getTimeToNextRequestMs(failedRequests)]]
         /\ UNCHANGED thrown

\* LoopInitialWake without the token check of line 59.
LoopInitialWake_NoTokenCheck(l) ==
    /\ loops[l].pc = "initialWait"
    /\ socketState' = SocketOpen
    /\ loops' = [loops EXCEPT ![l].pc = "open", ![l].opens = @ + 1]
    /\ UNCHANGED <<reactionVars, houseVars, runtimeVars>>
    /\ last' = "task"
    /\ UNCHANGED <<connVars, connectionToken_, disposed_, failedRequests, monitors, now,
                   writeCalls, transportWritten, thrown>>

\* The loop resumes from its initial back-off wait.
LoopInitialWake(l) ==
    /\ loops[l].pc = "initialWait"
    /\ IF connectionToken_ # l \/ disposed_
       THEN /\ failedRequests' = resetToIdle(failedRequests)
            /\ loops' = [loops EXCEPT ![l].pc = "returned", ![l].result = "superseded"]
            /\ UNCHANGED socketState
       ELSE /\ socketState' = SocketOpen
            /\ loops' = [loops EXCEPT ![l].pc = "open", ![l].opens = @ + 1]
            /\ UNCHANGED failedRequests
    /\ UNCHANGED <<reactionVars, houseVars, runtimeVars>>
    /\ last' = "task"
    /\ UNCHANGED <<connVars, connectionToken_, disposed_, monitors, now, writeCalls,
                   transportWritten, thrown>>

\* LoopOpenResolveWithin without lines 77-78: the result of open() is not
\* reported to the back-off policy.
LoopOpenResolveWithin_NotReported(l, connected, attempts) ==
    /\ loops[l].pc = "open"
    /\ connected \/ loops[l].opens < attempts
    /\ failedRequests' = failedRequests
    /\ IF connectionToken_ # l
       THEN /\ socketState' = IF connected /\ disposed_ THEN SocketClose
                                                        ELSE SocketOpened(connected)
            /\ loops' = [loops EXCEPT ![l].pc = "returned", ![l].result = "superseded"]
            /\ UNCHANGED connectionToken_
       ELSE IF connected
       THEN /\ socketState' = SocketOpened(connected)
            /\ connectionToken_' = Null
            /\ loops' = [loops EXCEPT ![l].pc = "returned", ![l].result = "succeeded"]
       ELSE /\ socketState' = SocketOpened(connected)
            /\ loops' = [loops EXCEPT ![l].pc = "retryWait",
                             ![l].delay = getTimeToNextRequestMs(failedRequests')]
            /\ UNCHANGED connectionToken_
    /\ UNCHANGED <<reactionVars, houseVars, runtimeVars>>
    /\ last' = "task"
    /\ UNCHANGED <<connVars, disposed_, monitors, now, writeCalls, transportWritten,
                   thrown>>

\* LoopOpenResolveWithin without the token check of line 80.
LoopOpenResolveWithin_TokenNotRechecked(l, connected, attempts) ==
    /\ loops[l].pc = "open"
    /\ connected \/ loops[l].opens < attempts
    /\ failedRequests' = IF connected THEN markRequestSuccessful(failedRequests)
                                      ELSE markRequestFailed(failedRequests)
    /\ IF connected
       THEN /\ socketState' = SocketOpened(connected)
            /\ connectionToken_' = Null
            /\ loops' = [loops EXCEPT ![l].pc = "returned", ![l].result = "succeeded"]
       ELSE /\ socketState' = SocketOpened(connected)
            /\ loops' = [loops EXCEPT ![l].pc = "retryWait",
                             ![l].delay = getTimeToNextRequestMs(failedRequests')]
            /\ UNCHANGED connectionToken_
    /\ UNCHANGED <<reactionVars, houseVars, runtimeVars>>
    /\ last' = "task"
    /\ UNCHANGED <<connVars, disposed_, monitors, now, writeCalls, transportWritten,
                   thrown>>

\* The loop resumes from open(), which resolved to connected; a loop is
\* answered false no more than attempts - 1 times.
LoopOpenResolveWithin(l, connected, attempts) ==
    /\ loops[l].pc = "open"
    /\ connected \/ loops[l].opens < attempts
    /\ failedRequests' = IF connected THEN markRequestSuccessful(failedRequests)
                                      ELSE markRequestFailed(failedRequests)
    /\ IF connectionToken_ # l
       THEN /\ socketState' = IF connected /\ disposed_ THEN SocketClose
                                                        ELSE SocketOpened(connected)
            /\ loops' = [loops EXCEPT ![l].pc = "returned", ![l].result = "superseded"]
            /\ UNCHANGED connectionToken_
       ELSE IF connected
       THEN /\ socketState' = SocketOpened(connected)
            /\ connectionToken_' = Null
            /\ loops' = [loops EXCEPT ![l].pc = "returned", ![l].result = "succeeded"]
       ELSE /\ socketState' = SocketOpened(connected)
            /\ loops' = [loops EXCEPT ![l].pc = "retryWait",
                             ![l].delay = getTimeToNextRequestMs(failedRequests')]
            /\ UNCHANGED connectionToken_
    /\ UNCHANGED <<reactionVars, houseVars, runtimeVars>>
    /\ last' = "task"
    /\ UNCHANGED <<connVars, disposed_, monitors, now, writeCalls, transportWritten,
                   thrown>>

LoopOpenResolve(l, connected) == LoopOpenResolveWithin(l, connected, MaxAttempts)

\* LoopRetryWake of a loop that gives up after a failed attempt.
LoopRetryWake_GivesUp(l) ==
    /\ loops[l].pc = "retryWait"
    /\ failedRequests' = IF connectionToken_ # l THEN resetToIdle(failedRequests)
                                                 ELSE failedRequests
    /\ loops' = [loops EXCEPT ![l].pc = "returned", ![l].result = "failed"]
    /\ UNCHANGED <<reactionVars, houseVars, runtimeVars>>
    /\ last' = "task"
    /\ UNCHANGED <<connVars, connectionToken_, disposed_, socketState, monitors, now,
                   writeCalls, transportWritten, thrown>>

\* The loop resumes from the wait that follows a failed attempt.
LoopRetryWake(l) ==
    /\ loops[l].pc = "retryWait"
    /\ failedRequests' = IF connectionToken_ # l THEN resetToIdle(failedRequests)
                                                 ELSE failedRequests
    /\ IF connectionToken_ = l /\ ~disposed_
       THEN /\ socketState' = SocketOpen
            /\ loops' = [loops EXCEPT ![l].pc = "open", ![l].opens = @ + 1]
       ELSE /\ loops' = [loops EXCEPT ![l].pc = "returned", ![l].result = "superseded"]
            /\ UNCHANGED socketState
    /\ UNCHANGED <<reactionVars, houseVars, runtimeVars>>
    /\ last' = "task"
    /\ UNCHANGED <<connVars, connectionToken_, disposed_, monitors, now, writeCalls,
                   transportWritten, thrown>>

\* DiscordSocket.write: the body is empty, nothing reaches the raw socket.
Write(message) == transportWritten

\* SocketDisconnect without the check of line 120.
SocketDisconnect_NoDisposedCheck ==
    /\ socketState' =
           IF socketState \in {kStateConnecting, kStateConnected, kStateDisconnecting}
           THEN SocketClose ELSE socketState
    /\ connectionToken_' = Null

\* DiscordSocket.disconnect.
SocketDisconnect ==
    IF disposed_
    THEN UNCHANGED <<socketState, connectionToken_>>
    ELSE /\ socketState' =
                IF socketState \in {kStateConnecting, kStateConnected, kStateDisconnecting}
                THEN SocketClose ELSE socketState
         /\ connectionToken_' = Null

\* The raw socket's events with DiscordSocket's listeners for them, which log
\* the event and do nothing else.
SocketOnClose ==
    /\ socketState = kStateConnected
    /\ socketState' = kStateDisconnected
    /\ UNCHANGED <<reactionVars, houseVars, runtimeVars>>
    /\ last' = "socket.onClose"
    /\ UNCHANGED <<connVars, connectionToken_, disposed_, failedRequests, taskVars,
                   writeCalls, transportWritten, thrown>>

SocketOnError ==
    /\ socketState \in {kStateConnecting, kStateConnected}
    /\ UNCHANGED <<reactionVars, houseVars, runtimeVars>>
    /\ last' = "socket.onError"
    /\ UNCHANGED <<connVars, sockVars, taskVars, writeCalls, transportWritten, thrown>>

SocketOnMessage ==
    /\ socketState = kStateConnected
    /\ UNCHANGED <<reactionVars, houseVars, runtimeVars>>
    /\ last' = "socket.onMessage"
    /\ UNCHANGED <<connVars, sockVars, taskVars, writeCalls, transportWritten, thrown>>

\* The raw socket starts to close on its own, and has closed.
SocketClosing ==
    /\ socketState = kStateConnected
    /\ socketState' = kStateDisconnecting
    /\ UNCHANGED <<reactionVars, houseVars, runtimeVars>>
    /\ last' = "socket.closing"
    /\ UNCHANGED <<connVars, connectionToken_, disposed_, failedRequests, taskVars,
                   writeCalls, transportWritten, thrown>>

SocketClosed ==
    /\ socketState = kStateDisconnecting
    /\ socketState' = kStateDisconnected
    /\ UNCHANGED <<reactionVars, houseVars, runtimeVars>>
    /\ last' = "socket.onClose"
    /\ UNCHANGED <<connVars, connectionToken_, disposed_, failedRequests, taskVars,
                   writeCalls, transportWritten, thrown>>

\* DiscordSocket's methods called on the socket itself.
DiscordSocketConnect ==
    /\ SocketConnect
    /\ UNCHANGED <<reactionVars, houseVars, runtimeVars>>
    /\ last' = "socket.connect"
    /\ UNCHANGED <<connVars, disposed_, failedRequests, socketState, monitors, now,
                   writeCalls, transportWritten>>

\* The call reaches this.#socket_.close() (line 127).
SocketDisconnectCloses ==
    /\ ~disposed_
    /\ socketState \in {kStateConnecting, kStateConnected, kStateDisconnecting}

DiscordSocketDisconnect ==
    /\ SocketDisconnect
    /\ UNCHANGED <<reactionVars, houseVars, runtimeVars>>
    /\ last' = IF SocketDisconnectCloses THEN "socket.disconnect, close"
                                         ELSE "socket.disconnect"
    /\ UNCHANGED <<connVars, disposed_, failedRequests, taskVars, writeCalls,
                   transportWritten, thrown>>

DiscordSocketDispose ==
    /\ disposed_' = TRUE
    /\ UNCHANGED <<reactionVars, houseVars, runtimeVars>>
    /\ last' = "socket.dispose"
    /\ UNCHANGED <<connVars, connectionToken_, failedRequests, socketState, taskVars,
                   writeCalls, transportWritten, thrown>>

\* ------------------------------------------------ DiscordConnection
\* wait(ms) resolves after ms milliseconds; a null delay is no delay.
wait(ms) == IF ms = Null THEN 0 ELSE ms

internalConnect ==
    /\ connecting_' = TRUE
    /\ SocketConnect

connect ==
    /\ ~released
    /\ connect_' = TRUE
    /\ IF ~connecting_
       THEN internalConnect
       ELSE UNCHANGED <<connecting_, connectionToken_, loops, thrown>>
    /\ UNCHANGED <<reactionVars, houseVars, runtimeVars>>
    /\ last' = "connect"
    /\ UNCHANGED <<connected_, heartbeatAckTime_, heartbeatIntervalMs_,
                   heartbeatMonitorToken_, released, disposed_, failedRequests,
                   socketState, monitors, now, writeCalls, transportWritten>>

disconnect ==
    /\ ~released
    /\ connect_' = FALSE
    /\ connecting_' = FALSE
    /\ SocketDisconnect
    /\ monitors' = [m \in MonitorIds |->
           IF monitors[m].pc = "wait" THEN [monitors[m] EXCEPT !.cancelled = TRUE]
                                      ELSE monitors[m]]
    /\ loops' = [l \in LoopIds |->
           IF Suspended(l) THEN [loops[l] EXCEPT !.cancelled = TRUE] ELSE loops[l]]
    /\ UNCHANGED <<reactionVars, houseVars, runtimeVars>>
    /\ last' = "disconnect"
    /\ UNCHANGED <<connected_, heartbeatAckTime_, heartbeatIntervalMs_,
                   heartbeatMonitorToken_, released, disposed_, failedRequests, now,
                   writeCalls, transportWritten, thrown>>

\* identify: both opcodes are left to do, nothing is sent.
identify == TRUE

\* The message sendOpcodeMessage builds from its argument { op }: d, s and t
\* take their defaults, {} (here the empty tuple), null and null.
OpcodeMessage(op) == [op |-> op, d |-> <<>>, s |-> Null, t |-> Null]

\* What DiscordSocket.write resolves to: its body is empty.
WriteResult == "undefined"

\* What sendOpcodeMessage resolves to when it is called in this state.
sendOpcodeMessageResult == IF ~connected_ THEN FALSE ELSE WriteResult

\* sendOpcodeMessage without the check of line 90.
sendOpcodeMessage_NoConnectedCheck(op) ==
    /\ writeCalls' = Append(writeCalls, OpcodeMessage(op))
    /\ transportWritten' = Write(OpcodeMessage(op))

sendOpcodeMessage(op) ==
    IF ~connected_
    THEN UNCHANGED <<writeCalls, transportWritten>>
    ELSE /\ writeCalls' = Append(writeCalls, OpcodeMessage(op))
         /\ transportWritten' = Write(OpcodeMessage(op))

onConnectionClosed ==
    /\ ~released
    /\ connected_' = FALSE
    /\ heartbeatMonitorToken_' = Null
    /\ UNCHANGED <<reactionVars, houseVars, runtimeVars>>
    /\ last' = "onConnectionClosed"
    /\ UNCHANGED <<connect_, connecting_, heartbeatAckTime_, heartbeatIntervalMs_,
                   released, sockVars, taskVars, writeCalls, transportWritten, thrown>>

onConnectionEstablished ==
    /\ ~released
    /\ connected_' = TRUE
    /\ connecting_' = FALSE
    /\ heartbeatIntervalMs_' = Null
    /\ heartbeatAckTime_' = Null
    /\ UNCHANGED <<reactionVars, houseVars, runtimeVars>>
    /\ last' = "onConnectionEstablished"
    /\ UNCHANGED <<connect_, heartbeatMonitorToken_, released, sockVars, taskVars,
                   writeCalls, transportWritten, thrown>>

onConnectionFailed ==
    /\ ~released
    /\ UNCHANGED <<reactionVars, houseVars, runtimeVars>>
    /\ last' = "onConnectionFailed"
    /\ UNCHANGED <<connVars, sockVars, taskVars, writeCalls, transportWritten, thrown>>

FirstUnusedMonitor(m) ==
    /\ monitors[m].pc = "unused"
    /\ \A k \in MonitorIds : k < m => monitors[k].pc # "unused"

\* heartbeatMonitor without line 166: the token is not stored.
heartbeatMonitor_TokenNotStored(interval) ==
    \E m \in MonitorIds :
        /\ FirstUnusedMonitor(m)
        /\ UNCHANGED heartbeatMonitorToken_
        /\ IF interval = Null \/ interval = 0 \/ interval < kMinimumHeartbeatMonitorMs
           THEN /\ monitors' = [monitors EXCEPT ![m] = [NoMonitor EXCEPT !.pc = "threw"]]
                /\ thrown' = thrown \cup
                       {"Unwilling to start the Discord monitor: interval too low."}
           ELSE /\ monitors' = [monitors EXCEPT ![m] =
                       [NoMonitor EXCEPT !.pc = "wait", !.delay = wait(interval)]]
                /\ UNCHANGED thrown

\* heartbeatMonitor up to its first await, with the interval just recorded.
heartbeatMonitor(interval) ==
    \E m \in MonitorIds :
        /\ FirstUnusedMonitor(m)
        /\ heartbeatMonitorToken_' = m
        /\ IF interval = Null \/ interval = 0 \/ interval < kMinimumHeartbeatMonitorMs
           THEN /\ monitors' = [monitors EXCEPT ![m] = [NoMonitor EXCEPT !.pc = "threw"]]
                /\ thrown' = thrown \cup
                       {"Unwilling to start the Discord monitor: interval too low."}
           ELSE /\ monitors' = [monitors EXCEPT ![m] =
                       [NoMonitor EXCEPT !.pc = "wait", !.delay = wait(interval)]]
                /\ UNCHANGED thrown

\* HeartbeatWake without the token check of line 177.
HeartbeatWake_NoTokenCheck(m) ==
    /\ monitors[m].pc = "wait"
    /\ connected_ => Len(writeCalls) < MaxWrites
    /\ sendOpcodeMessage(kOpcodeHeartbeat)
    /\ monitors' = [monitors EXCEPT ![m].delay = wait(heartbeatIntervalMs_)]
    /\ UNCHANGED <<reactionVars, houseVars, runtimeVars>>
    /\ last' = "heartbeatWake"
    /\ UNCHANGED <<connVars, sockVars, loops, now, thrown>>

\* The monitor resumes from its interval wait; no more than `writes' messages
\* are written in all.
HeartbeatWakeWithin(m, writes) ==
    /\ monitors[m].pc = "wait"
    /\ IF heartbeatMonitorToken_ # m
       THEN /\ monitors' = [monitors EXCEPT ![m] = [NoMonitor EXCEPT !.pc = "returned"]]
            /\ UNCHANGED <<writeCalls, transportWritten>>
       ELSE /\ connected_ => Len(writeCalls) < writes
            /\ sendOpcodeMessage(kOpcodeHeartbeat)
            /\ monitors' = [monitors EXCEPT ![m].delay = wait(heartbeatIntervalMs_)]
    /\ UNCHANGED <<reactionVars, houseVars, runtimeVars>>
    /\ last' = "heartbeatWake"
    /\ UNCHANGED <<connVars, sockVars, loops, now, thrown>>

HeartbeatWake(m) == HeartbeatWakeWithin(m, MaxWrites)

\* onMessage whose HeartbeatAck case also ends the heartbeat monitor.
onMessage_AckStopsMonitor(op, interval) ==
    /\ ~released
    /\ CASE op = kOpcodeHeartbeat ->
              /\ connected_ => Len(writeCalls) < MaxWrites
              /\ sendOpcodeMessage(kOpcodeHeartbeatAck)
              /\ UNCHANGED <<heartbeatAckTime_, heartbeatIntervalMs_,
                             heartbeatMonitorToken_, monitors, thrown>>
         [] op = kOpcodeHeartbeatAck ->
              /\ heartbeatAckTime_' = now
              /\ heartbeatMonitorToken_' = Null
              /\ UNCHANGED <<heartbeatIntervalMs_, monitors,
                             thrown, writeCalls, transportWritten>>
         [] op = kOpcodeHello ->
              /\ heartbeatIntervalMs_' =
                     IF interval = Null THEN kDefaultHeartbeatIntervalMs ELSE interval
              /\ heartbeatMonitor(heartbeatIntervalMs_')
              /\ identify
              /\ UNCHANGED <<heartbeatAckTime_, writeCalls, transportWritten>>
         [] OTHER ->
              UNCHANGED <<heartbeatAckTime_, heartbeatIntervalMs_,
                          heartbeatMonitorToken_, monitors, thrown, writeCalls,
                          transportWritten>>
    /\ UNCHANGED <<reactionVars, houseVars, runtimeVars>>
    /\ last' = "onMessage"
    /\ UNCHANGED <<connect_, connected_, connecting_, released, sockVars, loops, now>>

\* onMessage without the "?? 41250" of line 141.
onMessage_NoDefaultInterval(op, interval) ==
    /\ ~released
    /\ CASE op = kOpcodeHeartbeat ->
              /\ connected_ => Len(writeCalls) < MaxWrites
              /\ sendOpcodeMessage(kOpcodeHeartbeatAck)
              /\ UNCHANGED <<heartbeatAckTime_, heartbeatIntervalMs_,
                             heartbeatMonitorToken_, monitors, thrown>>
         [] op = kOpcodeHeartbeatAck ->
              /\ heartbeatAckTime_' = now
              /\ UNCHANGED <<heartbeatIntervalMs_, heartbeatMonitorToken_, monitors,
                             thrown, writeCalls, transportWritten>>
         [] op = kOpcodeHello ->
              /\ heartbeatIntervalMs_' = interval
              /\ heartbeatMonitor(heartbeatIntervalMs_')
              /\ identify
              /\ UNCHANGED <<heartbeatAckTime_, writeCalls, transportWritten>>
         [] OTHER ->
              UNCHANGED <<heartbeatAckTime_, heartbeatIntervalMs_,
                          heartbeatMonitorToken_, monitors, thrown, writeCalls,
                          transportWritten>>
    /\ UNCHANGED <<reactionVars, houseVars, runtimeVars>>
    /\ last' = "onMessage"
    /\ UNCHANGED <<connect_, connected_, connecting_, released, sockVars, loops, now>>

\* onMessage whose default case treats the message as a failure and drops
\* the connection.
onMessage_UnknownOpcodeDisconnects(op, interval) ==
    /\ ~released
    /\ CASE op = kOpcodeHeartbeat ->
              /\ connected_ => Len(writeCalls) < MaxWrites
              /\ sendOpcodeMessage(kOpcodeHeartbeatAck)
              /\ UNCHANGED <<heartbeatAckTime_, heartbeatIntervalMs_,
                             heartbeatMonitorToken_, monitors, thrown>>
         [] op = kOpcodeHeartbeatAck ->
              /\ heartbeatAckTime_' = now
              /\ UNCHANGED <<heartbeatIntervalMs_, heartbeatMonitorToken_, monitors,
                             thrown, writeCalls, transportWritten>>
         [] op = kOpcodeHello ->
              /\ heartbeatIntervalMs_' =
                     IF interval = Null THEN kDefaultHeartbeatIntervalMs ELSE interval
              /\ heartbeatMonitor(heartbeatIntervalMs_')
              /\ identify
              /\ UNCHANGED <<heartbeatAckTime_, writeCalls, transportWritten>>
         [] OTHER ->
              /\ heartbeatMonitorToken_' = Null
              /\ UNCHANGED <<heartbeatAckTime_, heartbeatIntervalMs_, monitors, thrown,
                             writeCalls, transportWritten>>
    /\ UNCHANGED <<reactionVars, houseVars, runtimeVars>>
    /\ last' = "onMessage"
    /\ UNCHANGED <<connect_, connected_, connecting_, released, sockVars, loops, now>>

onMessage(op, interval) ==
    /\ ~released
    /\ CASE op = kOpcodeHeartbeat ->
              /\ connected_ => Len(writeCalls) < MaxWrites
              /\ sendOpcodeMessage(kOpcodeHeartbeatAck)
              /\ UNCHANGED <<heartbeatAckTime_, heartbeatIntervalMs_,
                             heartbeatMonitorToken_, monitors, thrown>>
         [] op = kOpcodeHeartbeatAck ->
              /\ heartbeatAckTime_' = now
              /\ UNCHANGED <<heartbeatIntervalMs_, heartbeatMonitorToken_, monitors,
                             thrown, writeCalls, transportWritten>>
         [] op = kOpcodeHello ->
              /\ heartbeatIntervalMs_' =
                     IF interval = Null THEN kDefaultHeartbeatIntervalMs ELSE interval
              /\ heartbeatMonitor(heartbeatIntervalMs_')
              /\ identify
              /\ UNCHANGED <<heartbeatAckTime_, writeCalls, transportWritten>>
         [] OTHER ->
              UNCHANGED <<heartbeatAckTime_, heartbeatIntervalMs_,
                          heartbeatMonitorToken_, monitors, thrown, writeCalls,
                          transportWritten>>
    /\ UNCHANGED <<reactionVars, houseVars, runtimeVars>>
    /\ last' = "onMessage"
    /\ UNCHANGED <<connect_, connected_, connecting_, released, sockVars, loops, now>>

\* dispose without line 191: the socket is not disposed of.
dispose_SocketNotDisposed ==
    /\ ~released
    /\ heartbeatMonitorToken_' = Null
    /\ SocketDisconnect
    /\ released' = TRUE
    /\ UNCHANGED <<reactionVars, houseVars, runtimeVars>>
    /\ last' = "dispose"
    /\ UNCHANGED <<connect_, connected_, connecting_, heartbeatAckTime_,
                   heartbeatIntervalMs_, disposed_, failedRequests, loops, monitors,
                   now, writeCalls, transportWritten, thrown>>

dispose ==
    /\ ~released
    /\ heartbeatMonitorToken_' = Null
    /\ SocketDisconnect
    /\ disposed_' = TRUE
    /\ released' = TRUE
    /\ UNCHANGED <<reactionVars, houseVars, runtimeVars>>
    /\ last' = "dispose"
    /\ UNCHANGED <<connect_, connected_, connecting_, heartbeatAckTime_,
                   heartbeatIntervalMs_, failedRequests, loops, monitors, now,
                   writeCalls, transportWritten, thrown>>

\* ------------------------------------------------------------- time
\* The monotonic clock moves on.
Tick ==
    /\ now < MaxTime
    /\ now' = now + 1
    /\ UNCHANGED <<reactionVars, houseVars, runtimeVars>>
    /\ last' = "tick"
    /\ UNCHANGED <<connVars, sockVars, loops, monitors, writeCalls, transportWritten,
                   thrown>>

\* The socket with the connection as its delegate: the connection is told
\* that it is established while the raw socket is connected, and that it has
\* closed while it is not.
Next ==
    \/ connect
    \/ disconnect
    \/ dispose
    \/ \E l \in LoopIds : LoopInitialWake(l)
    \/ \E l \in LoopIds, connected \in BOOLEAN : LoopOpenResolve(l, connected)
    \/ \E l \in LoopIds : LoopRetryWake(l)
    \/ SocketOnClose
    \/ SocketOnError
    \/ SocketOnMessage
    \/ socketState # kStateConnected /\ onConnectionClosed
    \/ socketState = kStateConnected /\ onConnectionEstablished
    \/ onConnectionFailed

Spec == Init /\ [][Next]_vars

\* The connection on its own, its delegate methods called in any order.
NextGateway ==
    \/ disconnect
    \/ dispose
    \/ onConnectionClosed
    \/ onConnectionEstablished
    \/ onConnectionFailed
    \/ \E op \in Opcodes \ {kOpcodeHello} : onMessage(op, Null)
    \/ \E interval \in HelloIntervals : onMessage(kOpcodeHello, interval)
    \/ \E m \in MonitorIds : HeartbeatWake(m)

SpecGateway == Init /\ [][NextGateway]_vars

\* The connection on its own while the monotonic clock moves on.
NextGatewayClock ==
    \/ NextGateway
    \/ Tick

SpecGatewayClock == Init /\ [][NextGatewayClock]_vars

\* The whole client: the socket with the connection as its delegate, which
\* receives messages while the raw socket is connected.  The handlers that
\* only log (SocketOnError, SocketOnMessage, onConnectionFailed) change no
\* state and are left out.
NextClient ==
    \/ connect
    \/ disconnect
    \/ dispose
    \/ \E l \in LoopIds : LoopInitialWake(l)
    \/ \E l \in LoopIds, connected \in BOOLEAN : LoopOpenResolve(l, connected)
    \/ \E l \in LoopIds : LoopRetryWake(l)
    \/ SocketOnClose
    \/ socketState # kStateConnected /\ onConnectionClosed
    \/ socketState = kStateConnected /\ onConnectionEstablished
    \/ \E op \in Opcodes \ {kOpcodeHello} :
          socketState = kStateConnected /\ onMessage(op, Null)
    \/ \E interval \in HelloIntervals :
          socketState = kStateConnected /\ onMessage(kOpcodeHello, interval)
    \/ \E m \in MonitorIds : HeartbeatWake(m)
    \/ Tick

SpecClient == Init /\ [][NextClient]_vars

\* The socket and its delegate, where every wait() ends and every open() is
\* answered; the application and the peer are free to do nothing.
SpecFair ==
    /\ Spec
    /\ \A l \in LoopIds :
          /\ WF_vars(LoopInitialWake(l))
          /\ WF_vars(\E connected \in BOOLEAN : LoopOpenResolve(l, connected))
          /\ WF_vars(LoopRetryWake(l))

\* The socket on its own, its methods called in any order while its loops
\* run and the raw socket closes when it pleases.
NextSocket ==
    \/ DiscordSocketConnect
    \/ DiscordSocketDisconnect
    \/ DiscordSocketDispose
    \/ \E l \in LoopIds : LoopInitialWake(l)
    \/ \E l \in LoopIds, connected \in BOOLEAN : LoopOpenResolve(l, connected)
    \/ \E l \in LoopIds : LoopRetryWake(l)
    \/ SocketOnClose
    \/ SocketClosing
    \/ SocketClosed

SpecSocket == Init /\ [][NextSocket]_vars

\* The socket on its own, where every wait() ends and every open() is
\* answered.
SpecSocketFair ==
    /\ SpecSocket
    /\ \A l \in LoopIds :
          /\ WF_vars(LoopInitialWake(l))
          /\ WF_vars(\E connected \in BOOLEAN : LoopOpenResolve(l, connected))
          /\ WF_vars(LoopRetryWake(l))

\* The retry loop on its own: DiscordSocket.connect and
\* DiscordSocket.disconnect are called in any order and the loops run, each
\* with up to MaxRetryAttempts calls of open().
NextRetry ==
    \/ DiscordSocketConnect
    \/ DiscordSocketDisconnect
    \/ \E l \in LoopIds : LoopInitialWake(l)
    \/ \E l \in LoopIds, connected \in BOOLEAN :
          LoopOpenResolveWithin(l, connected, MaxRetryAttempts)
    \/ \E l \in LoopIds : LoopRetryWake(l)

SpecRetry == Init /\ [][NextRetry]_vars

\* The socket and its delegate, which is handed the Reconnect and
\* InvalidSession messages of the peer while the raw socket is connected;
\* every wait() ends and every open() is answered.
NextReconnect ==
    \/ Next
    \/ socketState = kStateConnected /\ onMessage(kOpcodeReconnect, Null)
    \/ socketState = kStateConnected /\ onMessage(kOpcodeInvalidSession, Null)

SpecReconnect ==
    /\ Init
    /\ [][NextReconnect]_vars
    /\ \A l \in LoopIds :
          /\ WF_vars(LoopInitialWake(l))
          /\ WF_vars(\E connected \in BOOLEAN : LoopOpenResolve(l, connected))
          /\ WF_vars(LoopRetryWake(l))

\* The client up to its disposal: connections are started and established,
\* a Hello starts the heartbeat monitor, the loops and the monitors run, and
\* dispose() comes at any moment.
NextDispose ==
    \/ connect
    \/ dispose
    \/ \E l \in LoopIds : LoopInitialWake(l)
    \/ \E l \in LoopIds, connected \in BOOLEAN : LoopOpenResolve(l, connected)
    \/ \E l \in LoopIds : LoopRetryWake(l)
    \/ socketState = kStateConnected /\ onConnectionEstablished
    \/ socketState = kStateConnected
          /\ onMessage(kOpcodeHello, kDefaultHeartbeatIntervalMs)
    \/ \E m \in MonitorIds : HeartbeatWake(m)

SpecDispose == Init /\ [][NextDispose]_vars

\* ---------------------------------------------------- ReactionTests
\* Time is server.clock.monotonicallyIncreasingTime() in milliseconds; the
\* clock moves on by whole seconds, and only once every wait() that has
\* run out has had its callback called: callbacks run in the order in which
\* their waits end, and in the order of the wait() calls where they end
\* together.
MaxTests == 2
MaxClockSec == 4
RandomSteps == 4

\* The settings the feature is run with, in seconds.
DelaySettings == {1}
JitterSettings == {0, 1}
ExpireSettings == {1, 3}
\* The settings calculateDelayForNextTest is handed, of either sign.
AnyDelaySettings == (0 - 1)..4
AnyJitterSettings == (0 - 2)..2

\* Math.random() is random / RandomSteps, a number in [0, 1).
Random == 0..(RandomSteps - 1)

\* What a player says: 0 is chatter, k the answer to the k-th test.
Messages == 0..MaxTests

\* A test is the strategy instance created for it, told apart by the token
\* of its start; its answer is the message of that number.
verify(test, message) == message = test

\* calculateDelayForNextTest without the "- jitter" of line 61.
calculateDelayForNextTest_JitterNotSubtracted(delay, jitter, random) ==
    delay + ((random * 2 * jitter) \div RandomSteps)

\* delay + Math.floor(Math.random() * 2 * jitter) - jitter
calculateDelayForNextTest(delay, jitter, random) ==
    delay + ((random * 2 * jitter) \div RandomSteps) - jitter

Timer(fn, ms) == [fn |-> fn, due |-> now + wait(ms)]

\* The wait() that ends first.
NextTimer ==
    CHOOSE i \in DOMAIN timers :
        \A j \in DOMAIN timers :
            \/ timers[i].due < timers[j].due
            \/ timers[i].due = timers[j].due /\ i <= j
Due == timers # <<>> /\ timers[NextTimer].due <= now
Pending ==
    SubSeq(timers, 1, NextTimer - 1) \o SubSeq(timers, NextTimer + 1, Len(timers))

\* The feature as constructed: the first test has been scheduled.
InitReactionTests ==
    /\ InitClient
    /\ InitNoHouses
    /\ InitNoRuntime
    /\ settings \in [delay : DelaySettings, jitter : JitterSettings,
                     expire : ExpireSettings]
    /\ activeTest_ = Null
    /\ activeTestStart_ = Null
    /\ activeTestToken_ = 0
    /\ activeTestWinnerName_ = NoWinner
    /\ activeTestWinnerTime_ = Null
    /\ reactionTests = [p \in Players |-> 0]
    /\ \E random \in Random :
          delayForNextTest =
              calculateDelayForNextTest(settings.delay, settings.jitter, random)
    /\ timers = <<[fn |-> "startReactionTest", due |-> wait(delayForNextTest * 1000)]>>
    /\ handled = FALSE
    /\ sent = <<>>
    /\ timedOutAt = Null
    /\ skipped = FALSE
    /\ reactionTestsDisposed = FALSE

\* scheduleNextTest with the waits in `pending' still running.
scheduleNextTest(pending, random) ==
    /\ delayForNextTest' =
          calculateDelayForNextTest(settings.delay, settings.jitter, random)
    /\ timers' = Append(pending, Timer("startReactionTest", delayForNextTest' * 1000))

\* startReactionTest(activeTestToken); skip is shouldSkipReactionTest(), that
\* no human player is online.  strategy.start announces the test.
startReactionTest(activeTestToken, pending, skip, random) ==
    IF activeTestToken_' # activeTestToken
    THEN /\ timers' = pending
         /\ sent' = <<>>
         /\ UNCHANGED <<activeTest_, activeTestStart_, activeTestWinnerName_,
                        activeTestWinnerTime_, delayForNextTest, timedOutAt, skipped>>
    ELSE IF skip
    THEN /\ scheduleNextTest(pending, random)
         /\ sent' = <<>>
         /\ skipped' = TRUE
         /\ UNCHANGED <<activeTest_, activeTestStart_, activeTestWinnerName_,
                        activeTestWinnerTime_, timedOutAt>>
    ELSE /\ sent' = <<[to |-> "all", message |-> "REACTION_TEST_ANNOUNCE"]>>
         /\ activeTest_' = activeTestToken
         /\ activeTestStart_' = now
         /\ activeTestWinnerName_' = NoWinner
         /\ activeTestWinnerTime_' = Null
         /\ timers' = Append(pending, Timer("reactionTestTimedOut", settings.expire * 1000))
         /\ timedOutAt' = Null
         /\ skipped' = FALSE
         /\ UNCHANGED delayForNextTest

\* ++token: null, which dispose() leaves in the token, counts as 0.
Increment(token) == IF token = Null THEN 1 ELSE token + 1

\* The callback of scheduleNextTest: startReactionTest(++this.activeTestToken_).
StartTimerFires(skip, random) ==
    /\ Due
    /\ timers[NextTimer].fn = "startReactionTest"
    /\ activeTestToken_ < MaxTests
    /\ activeTestToken_' = Increment(activeTestToken_)
    /\ startReactionTest(Increment(activeTestToken_), Pending, skip, random)
    /\ last' = "startReactionTest"
    /\ UNCHANGED <<houseVars, runtimeVars, reactionTestsDisposed>>
    /\ UNCHANGED <<connVars, sockVars, taskVars, writeCalls, transportWritten, thrown,
                   settings, reactionTests, handled>>

\* reactionTestTimedOut without line 174: the test stays active.
reactionTestTimedOut_TestNotCleared(activeTestToken, pending, random) ==
    IF activeTestToken_ # activeTestToken
    THEN /\ timers' = pending
         /\ UNCHANGED <<activeTest_, delayForNextTest, timedOutAt>>
    ELSE /\ scheduleNextTest(pending, random)
         /\ timedOutAt' = now
         /\ UNCHANGED activeTest_

reactionTestTimedOut(activeTestToken, pending, random) ==
    IF activeTestToken_ # activeTestToken
    THEN /\ timers' = pending
         /\ UNCHANGED <<activeTest_, delayForNextTest, timedOutAt>>
    ELSE /\ activeTest_' = Null
         /\ scheduleNextTest(pending, random)
         /\ timedOutAt' = now

\* The callback of startReactionTest's wait:
\* reactionTestTimedOut(this.activeTestToken_), the token read when it runs.
TimeoutTimerFires(random) ==
    /\ Due
    /\ timers[NextTimer].fn = "reactionTestTimedOut"
    /\ reactionTestTimedOut(activeTestToken_, Pending, random)
    /\ sent' = <<>>
    /\ last' = "reactionTestTimedOut"
    /\ UNCHANGED <<houseVars, runtimeVars, reactionTestsDisposed>>
    /\ UNCHANGED <<connVars, sockVars, taskVars, writeCalls, transportWritten, thrown,
                   settings, activeTestStart_, activeTestToken_, activeTestWinnerName_,
                   activeTestWinnerTime_, reactionTests, handled, skipped>>

\* The announcement of a win, by the wins the player had before.
WinnerAnnouncement(previousWins) ==
    IF previousWins = 0 THEN "REACTION_TEST_ANNOUNCE_WINNER_FIRST"
    ELSE IF previousWins = 1 THEN "REACTION_TEST_ANNOUNCE_WINNER_SECOND"
    ELSE "REACTION_TEST_ANNOUNCE_WINNER"

\* onPlayerText without lines 130-136: every right answer wins.
onPlayerText_EveryAnswerWins(player, message) ==
    /\ IF activeTest_ = Null \/ ~verify(activeTest_, message)
       THEN /\ handled' = FALSE
            /\ sent' = <<>>
            /\ UNCHANGED <<activeTestWinnerName_, activeTestWinnerTime_, reactionTests,
                           timers, delayForNextTest>>
       ELSE /\ sent' = <<[to |-> "all",
                          message |-> WinnerAnnouncement(reactionTests[player])],
                         [to |-> player, message |-> "REACTION_TEST_WON"]>>
            /\ reactionTests' = [reactionTests EXCEPT ![player] = @ + 1]
            /\ activeTestWinnerName_' = player
            /\ activeTestWinnerTime_' = now
            /\ \E random \in Random : scheduleNextTest(timers, random)
            /\ handled' = TRUE
    /\ last' = "onPlayerText"
    /\ UNCHANGED <<houseVars, runtimeVars, reactionTestsDisposed>>
    /\ UNCHANGED <<connVars, sockVars, taskVars, writeCalls, transportWritten, thrown,
                   settings, activeTest_, activeTestStart_, activeTestToken_,
                   timedOutAt, skipped>>

\* onPlayerText without line 162: a win schedules no next test.
onPlayerText_NoNextTest(player, message) ==
    /\ IF activeTest_ = Null \/ ~verify(activeTest_, message)
       THEN /\ handled' = FALSE
            /\ sent' = <<>>
            /\ UNCHANGED <<activeTestWinnerName_, activeTestWinnerTime_, reactionTests,
                           timers, delayForNextTest>>
       ELSE IF activeTestWinnerName_ # NoWinner /\ activeTestWinnerName_ = player
       THEN /\ handled' = TRUE
            /\ sent' = <<>>
            /\ UNCHANGED <<activeTestWinnerName_, activeTestWinnerTime_, reactionTests,
                           timers, delayForNextTest>>
       ELSE IF activeTestWinnerName_ # NoWinner
       THEN /\ handled' = TRUE
            /\ sent' = <<[to |-> player, message |-> "REACTION_TEST_TOO_LATE"]>>
            /\ UNCHANGED <<activeTestWinnerName_, activeTestWinnerTime_, reactionTests,
                           timers, delayForNextTest>>
       ELSE /\ sent' = <<[to |-> "all",
                          message |-> WinnerAnnouncement(reactionTests[player])],
                         [to |-> player, message |-> "REACTION_TEST_WON"]>>
            /\ reactionTests' = [reactionTests EXCEPT ![player] = @ + 1]
            /\ activeTestWinnerName_' = player
            /\ activeTestWinnerTime_' = now
            /\ handled' = TRUE
            /\ UNCHANGED <<timers, delayForNextTest>>
    /\ last' = "onPlayerText"
    /\ UNCHANGED <<houseVars, runtimeVars, reactionTestsDisposed>>
    /\ UNCHANGED <<connVars, sockVars, taskVars, writeCalls, transportWritten, thrown,
                   settings, activeTest_, activeTestStart_, activeTestToken_,
                   timedOutAt, skipped>>

onPlayerText(player, message) ==
    /\ IF activeTest_ = Null \/ ~verify(activeTest_, message)
       THEN /\ handled' = FALSE
            /\ sent' = <<>>
            /\ UNCHANGED <<activeTestWinnerName_, activeTestWinnerTime_, reactionTests,
                           timers, delayForNextTest>>
       ELSE IF activeTestWinnerName_ # NoWinner /\ activeTestWinnerName_ = player
       THEN /\ handled' = TRUE
            /\ sent' = <<>>
            /\ UNCHANGED <<activeTestWinnerName_, activeTestWinnerTime_, reactionTests,
                           timers, delayForNextTest>>
       ELSE IF activeTestWinnerName_ # NoWinner
       THEN /\ handled' = TRUE
            /\ sent' = <<[to |-> player, message |-> "REACTION_TEST_TOO_LATE"]>>
            /\ UNCHANGED <<activeTestWinnerName_, activeTestWinnerTime_, reactionTests,
                           timers, delayForNextTest>>
       ELSE /\ sent' = <<[to |-> "all",
                          message |-> WinnerAnnouncement(reactionTests[player])],
                         [to |-> player, message |-> "REACTION_TEST_WON"]>>
            /\ reactionTests' = [reactionTests EXCEPT ![player] = @ + 1]
            /\ activeTestWinnerName_' = player
            /\ activeTestWinnerTime_' = now
            /\ \E random \in Random : scheduleNextTest(timers, random)
            /\ handled' = TRUE
    /\ last' = "onPlayerText"
    /\ UNCHANGED <<houseVars, runtimeVars, reactionTestsDisposed>>
    /\ UNCHANGED <<connVars, sockVars, taskVars, writeCalls, transportWritten, thrown,
                   settings, activeTest_, activeTestStart_, activeTestToken_,
                   timedOutAt, skipped>>

\* A second passes while no callback is due.
ClockAdvance ==
    /\ ~Due
    /\ now < MaxClockSec * 1000
    /\ now' = now + 1000
    /\ sent' = <<>>
    /\ last' = "clock.advance"
    /\ UNCHANGED <<houseVars, runtimeVars, reactionTestsDisposed>>
    /\ UNCHANGED <<connVars, sockVars, loops, monitors, writeCalls, transportWritten,
                   thrown, settings, activeTest_, activeTestStart_, activeTestToken_,
                   activeTestWinnerName_, activeTestWinnerTime_, reactionTests, timers,
                   delayForNextTest, handled, timedOutAt, skipped>>

\* ReactionTests.dispose, which a feature gets once: the token is set to null
\* (line 184).
ReactionTestsDispose ==
    /\ ~reactionTestsDisposed
    /\ reactionTestsDisposed' = TRUE
    /\ activeTestToken_' = Null
    /\ sent' = <<>>
    /\ last' = "ReactionTests.dispose"
    /\ UNCHANGED <<houseVars, runtimeVars>>
    /\ UNCHANGED <<connVars, sockVars, taskVars, writeCalls, transportWritten, thrown,
                   settings, activeTest_, activeTestStart_, activeTestWinnerName_,
                   activeTestWinnerTime_, reactionTests, timers, delayForNextTest,
                   handled, timedOutAt, skipped>>

\* The feature with its players: tests start and time out, the players
\* talk, and time passes.
NextReactionTests ==
    \/ \E skip \in BOOLEAN, random \in Random : StartTimerFires(skip, random)
    \/ \E random \in Random : TimeoutTimerFires(random)
    \/ \E player \in Players, message \in Messages : onPlayerText(player, message)
    \/ ClockAdvance

SpecReactionTests == InitReactionTests /\ [][NextReactionTests]_vars

\* calculateDelayForNextTest on its own, with settings of either sign.
InitDelay ==
    /\ InitClient
    /\ InitNoHouses
    /\ InitNoRuntime
    /\ settings \in [delay : AnyDelaySettings, jitter : AnyJitterSettings, expire : {1}]
    /\ activeTest_ = Null
    /\ activeTestStart_ = Null
    /\ activeTestToken_ = 0
    /\ activeTestWinnerName_ = NoWinner
    /\ activeTestWinnerTime_ = Null
    /\ reactionTests = [p \in Players |-> 0]
    /\ timers = <<>>
    /\ delayForNextTest = Null
    /\ handled = FALSE
    /\ sent = <<>>
    /\ timedOutAt = Null
    /\ skipped = FALSE
    /\ reactionTestsDisposed = FALSE

CalculateDelay(random) ==
    /\ delayForNextTest' =
          calculateDelayForNextTest(settings.delay, settings.jitter, random)
    /\ last' = "calculateDelayForNextTest"
    /\ UNCHANGED <<houseVars, runtimeVars, reactionTestsDisposed>>
    /\ UNCHANGED <<connVars, sockVars, taskVars, writeCalls, transportWritten, thrown,
                   settings, activeTest_, activeTestStart_, activeTestToken_,
                   activeTestWinnerName_, activeTestWinnerTime_, reactionTests, timers,
                   handled, sent, timedOutAt, skipped>>

NextDelay == \E random \in Random : CalculateDelay(random)

SpecDelay == InitDelay /\ [][NextDelay]_vars

\* The established connection with its heartbeat monitor, which sends up to
\* MaxWatchdogWrites heartbeats while the peer acknowledges them or does not.
NextWatchdog ==
    \/ onConnectionEstablished
    \/ onConnectionClosed
    \/ \E interval \in HelloIntervals : onMessage(kOpcodeHello, interval)
    \/ onMessage(kOpcodeHeartbeatAck, Null)
    \/ \E m \in MonitorIds : HeartbeatWakeWithin(m, MaxWatchdogWrites)
    \/ Tick

SpecWatchdog == Init /\ [][NextWatchdog]_vars

\* The feature with its players, disposed of at any moment.
NextReactionTestsDispose ==
    \/ NextReactionTests
    \/ ReactionTestsDispose

SpecReactionTestsDispose == InitReactionTests /\ [][NextReactionTestsDispose]_vars

\* ------------------------------------------------------- HouseManager
HousePlayers == {"Gunther", "Lucy", "Russell"}
\* player.isRegistered()
isRegistered(player) == player \in {"Gunther", "Lucy"}
\* getCurrentLocationForPlayer while the player stands on no location.
NoLocation == 0
\* HouseLocation.isAvailable(): no house has been set on the location.
isAvailable(location) == houseSettings[location] = NoHouse
\* HouseLocation.setHouse and HouseLocation.removeHouse.
setHouse(location, player) == [houseSettings EXCEPT ![location] = player]
removeHouseFrom(location) == [houseSettings EXCEPT ![location] = NoHouse]

\* A call of the manager.  pc: "database" (suspended at the await of its
\* database call), "removeHouse" (removeLocation suspended in the removeHouse
\* of line 195), "returned", "threw".  value is the error message of a call
\* that threw and the value of one that returned.
Call(fn, player, location, pc, value) ==
    [fn |-> fn, player |-> player, location |-> location, pc |-> pc, value |-> value]
NoPlayer == ""

\* The manager after loadHousesFromDatabase: the loaded locations, some of
\* them occupied; a location removed earlier has no house.
InitHouses ==
    /\ InitClient
    /\ InitNoReactionTests
    /\ InitNoRuntime
    /\ locations_ \in SUBSET Locations
    /\ houseSettings \in [Locations -> {NoHouse, "Gunther", "Lucy"}]
    /\ \A location \in Locations \ locations_ : houseSettings[location] = NoHouse
    /\ calls = <<>>
    /\ databaseCalls = 0
    /\ entered = {}

\* createHouse without the check of line 117.
createHouse_OccupiedNotChecked(player, location) ==
    /\ Len(calls) < MaxCalls
    /\ IF ~isRegistered(player)
       THEN /\ calls' = Append(calls, Call("createHouse", player, location, "threw",
                   "The |player| must be registered in order to own a house."))
            /\ UNCHANGED databaseCalls
       ELSE IF location \notin locations_
       THEN /\ calls' = Append(calls, Call("createHouse", player, location, "threw",
                   "The given |location| does not exist in this HouseManager."))
            /\ UNCHANGED databaseCalls
       ELSE /\ calls' = Append(calls, Call("createHouse", player, location, "database", ""))
            /\ databaseCalls' = databaseCalls + 1
    /\ last' = "createHouse"
    /\ UNCHANGED <<locations_, houseSettings, entered>>
    /\ UNCHANGED <<connVars, sockVars, taskVars, writeCalls, transportWritten, thrown,
                   reactionVars, runtimeVars>>

\* createHouse up to its await (lines 110-120): the three checks, then the
\* database call.
createHouse(player, location) ==
    /\ Len(calls) < MaxCalls
    /\ IF ~isRegistered(player)
       THEN /\ calls' = Append(calls, Call("createHouse", player, location, "threw",
                   "The |player| must be registered in order to own a house."))
            /\ UNCHANGED databaseCalls
       ELSE IF location \notin locations_
       THEN /\ calls' = Append(calls, Call("createHouse", player, location, "threw",
                   "The given |location| does not exist in this HouseManager."))
            /\ UNCHANGED databaseCalls
       ELSE IF ~isAvailable(location)
       THEN /\ calls' = Append(calls, Call("createHouse", player, location, "threw",
                   "The given |location| already is occupied by another player."))
            /\ UNCHANGED databaseCalls
       ELSE /\ calls' = Append(calls, Call("createHouse", player, location, "database", ""))
            /\ databaseCalls' = databaseCalls + 1
    /\ last' = "createHouse"
    /\ UNCHANGED <<locations_, houseSettings, entered>>
    /\ UNCHANGED <<connVars, sockVars, taskVars, writeCalls, transportWritten, thrown,
                   reactionVars, runtimeVars>>

\* createHouse after its await (lines 122-127): the house is set.
createHouseResolves(c) ==
    /\ c \in 1..Len(calls)
    /\ calls[c].fn = "createHouse"
    /\ calls[c].pc = "database"
    /\ houseSettings' = setHouse(calls[c].location, calls[c].player)
    /\ calls' = [calls EXCEPT ![c].pc = "returned", ![c].value = "undefined"]
    /\ last' = "createHouse.resolves"
    /\ UNCHANGED <<locations_, databaseCalls, entered>>
    /\ UNCHANGED <<connVars, sockVars, taskVars, writeCalls, transportWritten, thrown,
                   reactionVars, runtimeVars>>

\* forceEnterHouse; current is what getCurrentLocationForPlayer returns.
forceEnterHouse(player, current) ==
    /\ Len(calls) < MaxCalls
    /\ IF current # NoLocation
       THEN /\ calls' = Append(calls,
                   Call("forceEnterHouse", player, current, "returned", "false"))
            /\ UNCHANGED entered
       ELSE /\ entered' = entered \cup {<<player, current>>}
            /\ calls' = Append(calls,
                   Call("forceEnterHouse", player, current, "returned", "true"))
    /\ last' = "forceEnterHouse"
    /\ UNCHANGED <<locations_, houseSettings, databaseCalls>>
    /\ UNCHANGED <<connVars, sockVars, taskVars, writeCalls, transportWritten, thrown,
                   reactionVars, runtimeVars>>

\* removeLocation up to its first await (lines 190-197): an occupied location
\* first has its house removed, which suspends at line 234.
removeLocation(location) ==
    /\ Len(calls) < MaxCalls
    /\ IF location \notin locations_
       THEN /\ calls' = Append(calls, Call("removeLocation", NoPlayer, location, "threw",
                   "The |location| must be known to the HouseManager."))
            /\ UNCHANGED databaseCalls
       ELSE /\ calls' = Append(calls, Call("removeLocation", NoPlayer, location,
                   IF isAvailable(location) THEN "database" ELSE "removeHouse", ""))
            /\ databaseCalls' = databaseCalls + 1
    /\ last' = "removeLocation"
    /\ UNCHANGED <<locations_, houseSettings, entered>>
    /\ UNCHANGED <<connVars, sockVars, taskVars, writeCalls, transportWritten, thrown,
                   reactionVars, runtimeVars>>

\* removeLocation after an await: after the removeHouse of line 195 the house
\* is gone and the location is removed from the database (line 197); after
\* that the location is deleted (line 199).
removeLocationResolves(c) ==
    /\ c \in 1..Len(calls)
    /\ calls[c].fn = "removeLocation"
    /\ calls[c].pc \in {"removeHouse", "database"}
    /\ IF calls[c].pc = "removeHouse"
       THEN /\ houseSettings' = removeHouseFrom(calls[c].location)
            /\ databaseCalls' = databaseCalls + 1
            /\ calls' = [calls EXCEPT ![c].pc = "database"]
            /\ UNCHANGED locations_
       ELSE /\ locations_' = locations_ \ {calls[c].location}
            /\ calls' = [calls EXCEPT ![c].pc = "returned", ![c].value = "undefined"]
            /\ UNCHANGED <<houseSettings, databaseCalls>>
    /\ last' = "removeLocation.resolves"
    /\ UNCHANGED entered
    /\ UNCHANGED <<connVars, sockVars, taskVars, writeCalls, transportWritten, thrown,
                   reactionVars, runtimeVars>>

\* removeHouse up to its await (lines 221-234).
removeHouse(location) ==
    /\ Len(calls) < MaxCalls
    /\ IF location \notin locations_
       THEN /\ calls' = Append(calls, Call("removeHouse", NoPlayer, location, "threw",
                   "The given |location| does not exist in this HouseManager."))
            /\ UNCHANGED databaseCalls
       ELSE IF isAvailable(location)
       THEN /\ calls' = Append(calls, Call("removeHouse", NoPlayer, location, "threw",
                   "The given |location| is not currently occupied."))
            /\ UNCHANGED databaseCalls
       ELSE /\ calls' = Append(calls, Call("removeHouse", NoPlayer, location, "database", ""))
            /\ databaseCalls' = databaseCalls + 1
    /\ last' = "removeHouse"
    /\ UNCHANGED <<locations_, houseSettings, entered>>
    /\ UNCHANGED <<connVars, sockVars, taskVars, writeCalls, transportWritten, thrown,
                   reactionVars, runtimeVars>>

\* removeHouse after its await (lines 236-238).
removeHouseResolves(c) ==
    /\ c \in 1..Len(calls)
    /\ calls[c].fn = "removeHouse"
    /\ calls[c].pc = "database"
    /\ houseSettings' = removeHouseFrom(calls[c].location)
    /\ calls' = [calls EXCEPT ![c].pc = "returned", ![c].value = "undefined"]
    /\ last' = "removeHouse.resolves"
    /\ UNCHANGED <<locations_, databaseCalls, entered>>
    /\ UNCHANGED <<connVars, sockVars, taskVars, writeCalls, transportWritten, thrown,
                   reactionVars, runtimeVars>>

\* The manager with its callers; the database answers its calls in any order.
NextHouses ==
    \/ \E player \in HousePlayers, location \in Locations : createHouse(player, location)
    \/ \E c \in 1..MaxCalls : createHouseResolves(c)
    \/ \E player \in HousePlayers, current \in locations_ \cup {NoLocation} :
          forceEnterHouse(player, current)
    \/ \E location \in Locations : removeLocation(location)
    \/ \E c \in 1..MaxCalls : removeLocationResolves(c)
    \/ \E location \in Locations : removeHouse(location)
    \/ \E c \in 1..MaxCalls : removeHouseResolves(c)

SpecHouses == InitHouses /\ [][NextHouses]_vars

\* ------------------------------------------------------------ Runtime
\* A bot is the index of its entry in configuration_.bots.
Bots == 1..Len(configuration_)
BotConfigs == [master : BOOLEAN, optional : BOOLEAN]
RECURSIVE Configurations(_)
Configurations(n) ==
    IF n = 0 THEN {<<>>}
    ELSE Configurations(n - 1) \cup
         {Append(c, config) : c \in [1..(n - 1) -> BotConfigs], config \in BotConfigs}
Members(bots) == {bots[i] : i \in 1..Len(bots)}

\* The bots for which lines 52, 82 and 97 test `master || !optional`.
IsRequired(bot) == configuration_[bot].master \/ ~configuration_[bot].optional
IsSlave(bot) == ~IsRequired(bot)
IsMaster(bot) == configuration_[bot].master

\* The masterBot getter: the first active bot whose configuration says master.
masterBot ==
    IF \E i \in 1..Len(activeBots_) : IsMaster(activeBots_[i])
    THEN activeBots_[CHOOSE i \in 1..Len(activeBots_) :
            /\ IsMaster(activeBots_[i])
            /\ \A j \in 1..(i - 1) : ~IsMaster(activeBots_[j])]
    ELSE Null

\* What is known of a bot: the last connect() or disconnect() call made to
\* it, and the call made to it by the last operation of the Runtime.
NoCalls == [last |-> "none", issued |-> "none"]
Issue(bots, call) ==
    [bot \in Bots |->
        IF bot \in bots
        THEN [last |-> IF call = "dispose" THEN botCalls[bot].last ELSE call,
              issued |-> call]
        ELSE [botCalls[bot] EXCEPT !.issued = "none"]]

\* The Runtime as constructed from a configuration of up to MaxBots bots.
InitRuntime ==
    /\ InitClient
    /\ InitNoReactionTests
    /\ InitNoHouses
    /\ configuration_ \in Configurations(MaxBots)
    /\ activeBots_ = SelectSeq([bot \in Bots |-> bot], IsRequired)
    /\ availableBots_ = SelectSeq([bot \in Bots |-> bot], IsSlave)
    /\ botCalls = [bot \in Bots |-> NoCalls]
    /\ runtimeDisposed = FALSE

\* Runtime.connect: every active bot is connected.
RuntimeConnect ==
    /\ botCalls' = Issue(Members(activeBots_), "connect")
    /\ last' = "Runtime.connect"
    /\ UNCHANGED <<configuration_, activeBots_, availableBots_, runtimeDisposed>>
    /\ UNCHANGED <<connVars, sockVars, taskVars, writeCalls, transportWritten, thrown,
                   reactionVars, houseVars>>

\* requestSlaveIncrease that leaves the bot in availableBots_.
requestSlaveIncrease_NotDeleted ==
    /\ IF availableBots_ # <<>>
       THEN /\ activeBots_' = Append(activeBots_, Head(availableBots_))
            /\ botCalls' = Issue({Head(availableBots_)}, "connect")
            /\ UNCHANGED availableBots_
       ELSE /\ botCalls' = Issue({}, "none")
            /\ UNCHANGED <<activeBots_, availableBots_>>
    /\ last' = "requestSlaveIncrease"
    /\ UNCHANGED <<configuration_, runtimeDisposed>>
    /\ UNCHANGED <<connVars, sockVars, taskVars, writeCalls, transportWritten, thrown,
                   reactionVars, houseVars>>

\* requestSlaveIncrease: the first available bot becomes active and is
\* connected.
requestSlaveIncrease ==
    /\ IF availableBots_ # <<>>
       THEN /\ availableBots_' = Tail(availableBots_)
            /\ activeBots_' = Append(activeBots_, Head(availableBots_))
            /\ botCalls' = Issue({Head(availableBots_)}, "connect")
       ELSE /\ botCalls' = Issue({}, "none")
            /\ UNCHANGED <<activeBots_, availableBots_>>
    /\ last' = "requestSlaveIncrease"
    /\ UNCHANGED <<configuration_, runtimeDisposed>>
    /\ UNCHANGED <<connVars, sockVars, taskVars, writeCalls, transportWritten, thrown,
                   reactionVars, houseVars>>

\* The active bots without the one at index i.
Without(bots, i) == SubSeq(bots, 1, i - 1) \o SubSeq(bots, i + 1, Len(bots))
\* The first active bot that passes the test of line 82, or 0.
FirstSlave ==
    IF \E i \in 1..Len(activeBots_) : IsSlave(activeBots_[i])
    THEN CHOOSE i \in 1..Len(activeBots_) :
            /\ IsSlave(activeBots_[i])
            /\ \A j \in 1..(i - 1) : ~IsSlave(activeBots_[j])
    ELSE 0

\* requestSlaveDecrease without the disconnect() of line 88.
requestSlaveDecrease_NoDisconnect ==
    /\ IF FirstSlave # 0
       THEN /\ activeBots_' = Without(activeBots_, FirstSlave)
            /\ availableBots_' = Append(availableBots_, activeBots_[FirstSlave])
            /\ botCalls' = Issue({}, "none")
       ELSE /\ botCalls' = Issue({}, "none")
            /\ UNCHANGED <<activeBots_, availableBots_>>
    /\ last' = "requestSlaveDecrease"
    /\ UNCHANGED <<configuration_, runtimeDisposed>>
    /\ UNCHANGED <<connVars, sockVars, taskVars, writeCalls, transportWritten, thrown,
                   reactionVars, houseVars>>

\* requestSlaveDecrease without the test of line 82.
requestSlaveDecrease_AnyBot ==
    /\ IF activeBots_ # <<>>
       THEN /\ activeBots_' = Tail(activeBots_)
            /\ availableBots_' = Append(availableBots_, Head(activeBots_))
            /\ botCalls' = Issue({Head(activeBots_)}, "disconnect")
       ELSE /\ botCalls' = Issue({}, "none")
            /\ UNCHANGED <<activeBots_, availableBots_>>
    /\ last' = "requestSlaveDecrease"
    /\ UNCHANGED <<configuration_, runtimeDisposed>>
    /\ UNCHANGED <<connVars, sockVars, taskVars, writeCalls, transportWritten, thrown,
                   reactionVars, houseVars>>

\* requestSlaveDecrease: the first active bot that is neither the master nor
\* required becomes available and is disconnected.
requestSlaveDecrease ==
    /\ IF FirstSlave # 0
       THEN /\ activeBots_' = Without(activeBots_, FirstSlave)
            /\ availableBots_' = Append(availableBots_, activeBots_[FirstSlave])
            /\ botCalls' = Issue({activeBots_[FirstSlave]}, "disconnect")
       ELSE /\ botCalls' = Issue({}, "none")
            /\ UNCHANGED <<activeBots_, availableBots_>>
    /\ last' = "requestSlaveDecrease"
    /\ UNCHANGED <<configuration_, runtimeDisposed>>
    /\ UNCHANGED <<connVars, sockVars, taskVars, writeCalls, transportWritten, thrown,
                   reactionVars, houseVars>>

\* diconnect: every active bot is disconnected, and the optional ones among
\* them become available, in the order of the iteration.
diconnect ==
    /\ activeBots_' = SelectSeq(activeBots_, IsRequired)
    /\ availableBots_' = availableBots_ \o SelectSeq(activeBots_, IsSlave)
    /\ botCalls' = Issue(Members(activeBots_), "disconnect")
    /\ last' = "diconnect"
    /\ UNCHANGED <<configuration_, runtimeDisposed>>
    /\ UNCHANGED <<connVars, sockVars, taskVars, writeCalls, transportWritten, thrown,
                   reactionVars, houseVars>>

\* Runtime.dispose: every bot is disposed of and both sets are cleared; a
\* second dispose() finds observers_ null at line 158.
RuntimeDispose ==
    /\ IF runtimeDisposed
       THEN /\ thrown' = thrown \cup {"TypeError"}
            /\ botCalls' = Issue({}, "none")
            /\ UNCHANGED <<activeBots_, availableBots_, runtimeDisposed>>
       ELSE /\ botCalls' = Issue(Members(activeBots_) \cup Members(availableBots_),
                                 "dispose")
            /\ activeBots_' = <<>>
            /\ availableBots_' = <<>>
            /\ runtimeDisposed' = TRUE
            /\ UNCHANGED thrown
    /\ last' = "Runtime.dispose"
    /\ UNCHANGED configuration_
    /\ UNCHANGED <<connVars, sockVars, taskVars, writeCalls, transportWritten,
                   reactionVars, houseVars>>

\* The Runtime with its message distributor.
NextRuntime ==
    \/ RuntimeConnect
    \/ requestSlaveIncrease
    \/ requestSlaveDecrease
    \/ diconnect
    \/ RuntimeDispose

SpecRuntime == InitRuntime /\ [][NextRuntime]_vars

\* ------------------------------------------------------------ claims

\* C1: calling connect() again while the intent is already set (connect() was
\* called and disconnect() was not since) starts no retry loop, calls no
\* open() and throws no error.
C1_SecondConnectIsNoOp ==
    [][(connect /\ connect_) =>
          UNCHANGED <<loops, connectionToken_, socketState, thrown>>]_vars

\* C2: once disconnect() has been called while a retry loop was suspended,
\* that loop never calls open() again; cancelled in its initial wait, it has
\* called open() not once.
C2_NoOpenAfterDisconnect ==
    [][\A l \in LoopIds :
          loops[l].cancelled => loops'[l].opens = loops[l].opens]_vars

\* A loop that disconnect() met in its initial wait has woken up and returned
\* without a single open().
C2_Witness ==
    \E l \in LoopIds :
        /\ loops[l].cancelled
        /\ loops[l].pc = "returned"
        /\ loops[l].opens = 0

\* C3: in the state right after disconnect() the socket's connection token
\* is the token of no retry loop started so far, and the heartbeat monitor
\* token is the token of no monitor started so far.
C3_DisconnectInvalidatesTokens ==
    last = "disconnect" =>
        /\ \A l \in LoopIds : loops[l].pc # "unused" => connectionToken_ # l
        /\ \A m \in MonitorIds : monitors[m].pc # "unused" => heartbeatMonitorToken_ # m

\* C4: a monitor that was waiting when disconnect() was called hands no
\* Heartbeat to DiscordSocket.write on any later wake-up.
C4_NoHeartbeatAfterDisconnect ==
    [][\A m \in MonitorIds :
          (monitors[m].cancelled /\ HeartbeatWake(m)) => writeCalls' = writeCalls]_vars

\* C5: a monitor only ever waits on an interval of at least the floor, a
\* wake-up sends a Heartbeat only while the recorded interval is at least the
\* floor, and a Hello that records a lower interval makes the monitor throw.
C5_HeartbeatOnlyWithValidInterval ==
    /\ [](\A m \in MonitorIds :
             monitors[m].pc = "wait" => monitors[m].delay >= kMinimumHeartbeatMonitorMs)
    /\ [][\A m \in MonitorIds :
             (HeartbeatWake(m) /\ writeCalls' # writeCalls) =>
                 heartbeatIntervalMs_ >= kMinimumHeartbeatMonitorMs]_vars
    /\ [][\A i \in HelloIntervals :
             (onMessage(kOpcodeHello, i)
                /\ heartbeatIntervalMs_' < kMinimumHeartbeatMonitorMs) =>
                 /\ "Unwilling to start the Discord monitor: interval too low." \in thrown'
                 /\ \A m \in MonitorIds :
                        monitors[m].pc = "unused" => monitors'[m].pc # "wait"]_vars

\* C6: a wake-up of a monitor whose token is no longer the stored one ends
\* that monitor and changes nothing else: nothing is sent, no field of the
\* connection or the socket changes.
C6_SupersededMonitorExitsSilently ==
    [][\A m \in MonitorIds :
          (HeartbeatWake(m) /\ heartbeatMonitorToken_ # m) =>
              /\ monitors'[m].pc = "returned"
              /\ \A k \in MonitorIds \ {m} : monitors'[k] = monitors[k]
              /\ UNCHANGED <<connVars, sockVars, loops, now, writeCalls,
                             transportWritten, thrown>>]_vars

\* A second Hello superseded the first monitor, which has woken up and
\* returned while the second one still waits.
C6_Witness ==
    /\ last = "heartbeatWake"
    /\ monitors[1].pc = "returned"
    /\ monitors[2].pc = "wait"
    /\ heartbeatMonitorToken_ = 2
    /\ connected_

Active(m) == monitors[m].pc = "wait" /\ heartbeatMonitorToken_ = m
ActiveMonitors == {m \in MonitorIds : Active(m)}

\* C7 as claimed: once a Hello has started a monitor, and as long as no
\* Hello was turned down for its interval and the connection is not
\* disposed of, exactly one monitor is active, whatever closures and further
\* Hellos follow.
C7_ExactlyOneActive ==
    (/\ ~released
     /\ \E m \in MonitorIds : monitors[m].pc # "unused"
     /\ \A m \in MonitorIds : monitors[m].pc # "threw") =>
        Cardinality(ActiveMonitors) = 1

\* C7 as amended: never more than one monitor is active, and a Hello whose
\* interval is absent or at least the floor leaves the monitor it started as
\* the only active one.
C7_AtMostOneActive ==
    /\ [](Cardinality(ActiveMonitors) <= 1)
    /\ [][\A i \in HelloIntervals :
             (onMessage(kOpcodeHello, i)
                /\ (i = Null \/ i >= kMinimumHeartbeatMonitorMs)) =>
                 \E m \in MonitorIds :
                     /\ monitors[m].pc = "unused"
                     /\ ActiveMonitors' = {m}]_vars

\* A Hello was received while an earlier monitor was waiting: the earlier one
\* is retired, the new one is active.
C7_Witness ==
    /\ last = "onMessage"
    /\ monitors[1].pc = "wait"
    /\ monitors[2].pc = "wait"
    /\ ActiveMonitors = {2}

CountOp(seq, op) == Cardinality({i \in 1..Len(seq) : seq[i].op = op})

\* The only monitor ever started was started by a Hello with interval 41250
\* on an established connection, and neither disconnect() nor a closure nor
\* a new establishment came since.
HelloScenario ==
    /\ monitors[1].pc = "wait"
    /\ monitors[2].pc = "unused"
    /\ ~monitors[1].cancelled
    /\ heartbeatMonitorToken_ = 1
    /\ heartbeatIntervalMs_ = kDefaultHeartbeatIntervalMs
    /\ connected_

\* C8: in that scenario the raw socket has been written no Heartbeat while
\* the first interval runs, and exactly one when it has ended (the monitor
\* has woken up once).
C8_OneHeartbeatAfterInterval ==
    HelloScenario =>
        IF last = "heartbeatWake" /\ CountOp(writeCalls, kOpcodeHeartbeat) = 1
        THEN CountOp(transportWritten, kOpcodeHeartbeat) = 1
        ELSE CountOp(writeCalls, kOpcodeHeartbeat) = 0 =>
                 CountOp(transportWritten, kOpcodeHeartbeat) = 0

\* C9: when open() resolves to true for the loop whose token is the stored
\* one, the connection is established when the loop returns: connected and
\* no longer connecting.
C9_EstablishedOnSuccess ==
    [][\A l \in LoopIds :
          (LoopOpenResolve(l, TRUE) /\ connectionToken_ = l) =>
              connected_' /\ ~connecting_']_vars

\* C10: after the peer closed the connection while the intent is set (and a
\* further retry loop is within the bound), a retry loop is eventually in
\* flight again, or the intent is withdrawn.
C10_ReconnectsAfterClose ==
    (/\ last = "socket.onClose"
     /\ connect_
     /\ ~released
     /\ \E l \in LoopIds : loops[l].pc = "unused") ~>
        (~connect_ \/ released \/ \E l \in LoopIds : Suspended(l))

\* C11: a failed open() of the loop whose token is the stored one sends the
\* loop into its back-off wait without an error, the wake-up from that wait
\* calls open() again as long as the token is current and the socket is not
\* disposed of, an open() that succeeds for the current token ends the loop
\* with the raw socket connected, and with every wait ending and every open()
\* answered each loop returns: a returned loop never runs again, so from some
\* moment on no loop is suspended.
C11_FailedOpenIsRetried ==
    /\ [][\A l \in LoopIds :
             (LoopOpenResolve(l, FALSE) /\ connectionToken_ = l) =>
                 /\ loops'[l].pc = "retryWait"
                 /\ thrown' = thrown]_vars
    /\ [][\A l \in LoopIds :
             (LoopRetryWake(l) /\ connectionToken_ = l /\ ~disposed_) =>
                 /\ loops'[l].pc = "open"
                 /\ loops'[l].opens = loops[l].opens + 1
                 /\ thrown' = thrown]_vars
    /\ [][\A l \in LoopIds :
             (LoopOpenResolve(l, TRUE) /\ connectionToken_ = l) =>
                 /\ loops'[l].pc = "returned"
                 /\ loops'[l].result = "succeeded"
                 /\ socketState' = kStateConnected]_vars
    /\ <>[](\A l \in LoopIds : ~Suspended(l))

\* A loop whose first open() failed has called open() again and returned
\* with the socket connected.
C11_Witness ==
    \E l \in LoopIds :
        /\ loops[l].opens = 2
        /\ loops[l].result = "succeeded"
        /\ socketState = kStateConnected
        /\ thrown = {}

\* C12: while the connection is not connected no message is handed to
\* DiscordSocket.write, nothing is thrown by a send and sendOpcodeMessage
\* resolves to false; while it is connected each send (the answer to a
\* Heartbeat request, the heartbeat of the current monitor) hands exactly one
\* message { op, d, s, t } to DiscordSocket.write.
C12_SendOnlyWhileConnected ==
    /\ [](~connected_ => sendOpcodeMessageResult = FALSE)
    /\ [][~connected_ => writeCalls' = writeCalls]_vars
    /\ [][(~connected_ /\ onMessage(kOpcodeHeartbeat, Null)) => thrown' = thrown]_vars
    /\ [][(connected_ /\ onMessage(kOpcodeHeartbeat, Null)) =>
             /\ writeCalls' = Append(writeCalls, OpcodeMessage(kOpcodeHeartbeatAck))
             /\ thrown' = thrown]_vars
    /\ [][\A m \in MonitorIds :
             (connected_ /\ HeartbeatWake(m) /\ heartbeatMonitorToken_ = m) =>
                 /\ writeCalls' = Append(writeCalls, OpcodeMessage(kOpcodeHeartbeat))
                 /\ thrown' = thrown]_vars

\* A Heartbeat request was received while connected, and its answer was
\* handed to DiscordSocket.write.
C12_Witness ==
    /\ last = "onMessage"
    /\ connected_
    /\ writeCalls = <<OpcodeMessage(kOpcodeHeartbeatAck)>>

\* C13: a call of DiscordSocket.write while the raw socket is not connected
\* resolves to a failure and forwards nothing; a call while it is connected
\* forwards the message to the raw socket's write exactly once.
C13_WriteForwardsOrFails ==
    [][writeCalls' # writeCalls =>
          IF socketState = kStateConnected
          THEN transportWritten' = Append(transportWritten, writeCalls'[Len(writeCalls')])
          ELSE /\ transportWritten' = transportWritten
               /\ WriteResult = FALSE]_vars

\* C14: DiscordSocket.disconnect on a socket that is not disposed of calls
\* the raw socket's close() exactly when that is connecting, connected or
\* disconnecting, and leaves the connection token null; a second call right
\* after the first changes nothing and closes nothing; on a disposed socket
\* the call changes nothing and closes nothing.
C14_DisconnectIsIdempotent ==
    /\ [][(DiscordSocketDisconnect /\ ~disposed_) =>
             /\ connectionToken_' = Null
             /\ (last' = "socket.disconnect, close") <=>
                    (socketState \in {kStateConnecting, kStateConnected,
                                      kStateDisconnecting})
             /\ socketState # kStateDisconnected => socketState' = SocketClose
             /\ socketState = kStateDisconnected => socketState' = socketState
             /\ UNCHANGED <<connVars, disposed_, failedRequests, taskVars, writeCalls,
                            transportWritten, thrown>>]_vars
    /\ [][(DiscordSocketDisconnect
             /\ last \in {"socket.disconnect", "socket.disconnect, close"}) =>
             /\ last' = "socket.disconnect"
             /\ UNCHANGED <<connVars, sockVars, taskVars, writeCalls, transportWritten,
                            thrown>>]_vars
    /\ [][(DiscordSocketDisconnect /\ disposed_) =>
             /\ last' = "socket.disconnect"
             /\ UNCHANGED <<connVars, sockVars, taskVars, writeCalls, transportWritten,
                            thrown>>]_vars

\* disconnect() was called on a disposed socket whose raw socket is
\* connected and whose retry loop still waits with the stored token.
C14_Witness ==
    /\ last = "socket.disconnect"
    /\ disposed_
    /\ socketState = kStateConnected
    /\ \E l \in LoopIds : Suspended(l) /\ connectionToken_ = l

\* C15: DiscordSocket.connect called while the token of an earlier attempt
\* is still stored throws nothing and changes nothing: the token, the loops
\* and the socket are as they were.
C15_DoubleStartDoesNotThrow ==
    [][(DiscordSocketConnect /\ connectionToken_ # Null) =>
          /\ thrown' = thrown
          /\ UNCHANGED <<connVars, sockVars, taskVars, writeCalls, transportWritten>>]_vars

\* C16: receiving a HeartbeatAck records the monotonic time of its receipt
\* as the last ack time and changes nothing else: flags, intent, interval,
\* monitor token, socket, tasks and clock are as they were, nothing is sent
\* and nothing is thrown.
C16_AckOnlyRecordsTime ==
    [][onMessage(kOpcodeHeartbeatAck, Null) =>
          /\ heartbeatAckTime_' = now
          /\ UNCHANGED <<connect_, connected_, connecting_, heartbeatIntervalMs_,
                         heartbeatMonitorToken_, released, sockVars, taskVars,
                         writeCalls, transportWritten, thrown>>]_vars

\* A HeartbeatAck was received, after the clock had moved on, while a
\* monitor was active on an established connection.
C16_Witness ==
    /\ last = "onMessage"
    /\ now > 0
    /\ heartbeatAckTime_ = now
    /\ connected_
    /\ \E m \in MonitorIds : monitors[m].pc = "wait" /\ heartbeatMonitorToken_ = m

\* C20 as claimed: whenever an open() of the loop with the stored token
\* fails, the delay the loop waits on next is no lower than the one it waited
\* on before, and higher as long as the maximum is not reached; every answer
\* of open() is reported to the policy once, and a success returns it to idle.
C20_DelaysNeverDrop ==
    /\ [][\A l \in LoopIds :
             (/\ LoopOpenResolveWithin(l, FALSE, MaxRetryAttempts)
              /\ connectionToken_ = l) =>
                 /\ loops'[l].delay >= loops[l].delay
                 /\ loops[l].delay < kBackoffMaximumDelayMs =>
                        loops'[l].delay > loops[l].delay]_vars
    /\ [][\A l \in LoopIds :
             LoopOpenResolveWithin(l, FALSE, MaxRetryAttempts) =>
                 failedRequests' = failedRequests + 1]_vars
    /\ [][\A l \in LoopIds :
             LoopOpenResolveWithin(l, TRUE, MaxRetryAttempts) =>
                 /\ failedRequests' = 0
                 /\ getTimeToNextRequestMs(failedRequests') = 0]_vars

\* C20 as amended: when an open() of the loop with the stored token fails, and the
\* policy is as the loop left it when it last asked for a delay, the delay it
\* waits on next is no lower than the one before, and higher as long as the
\* maximum is not reached; every answer of open() is reported to the policy
\* once, a failure as one more failed request and a success as a return to
\* idle, from which the next delay is the baseline of no delay.
C20_DelaysGrowThenReset ==
    /\ [][\A l \in LoopIds :
             (/\ LoopOpenResolveWithin(l, FALSE, MaxRetryAttempts)
              /\ connectionToken_ = l
              /\ loops[l].delay = getTimeToNextRequestMs(failedRequests)) =>
                 /\ loops'[l].pc = "retryWait"
                 /\ loops'[l].delay >= loops[l].delay
                 /\ loops[l].delay < kBackoffMaximumDelayMs =>
                        loops'[l].delay > loops[l].delay]_vars
    /\ [][\A l \in LoopIds :
             LoopOpenResolveWithin(l, FALSE, MaxRetryAttempts) =>
                 failedRequests' = failedRequests + 1]_vars
    /\ [][\A l \in LoopIds :
             LoopOpenResolveWithin(l, TRUE, MaxRetryAttempts) =>
                 /\ failedRequests' = 0
                 /\ getTimeToNextRequestMs(failedRequests') = 0]_vars

\* The first loop waited 0, then 1000, then 2000 milliseconds: its open()
\* failed twice and then succeeded, and the policy is idle again.
C20_Witness ==
    /\ loops[1].opens = 3
    /\ loops[1].result = "succeeded"
    /\ loops[1].delay = 2 * kBackoffInitialDelayMs
    /\ loops[2].pc = "unused"
    /\ failedRequests = 0

\* C17: a Heartbeat request received while connected puts exactly one
\* HeartbeatAck on the raw socket, in the step that handles the request.
C17_HeartbeatRequestIsAcked ==
    [][(connected_ /\ socketState = kStateConnected
          /\ onMessage(kOpcodeHeartbeat, Null)) =>
          CountOp(transportWritten', kOpcodeHeartbeatAck) =
              CountOp(transportWritten, kOpcodeHeartbeatAck) + 1]_vars

\* C18: a Hello received while connected records the interval it carries
\* (the default when it carries none), starts a monitor that waits on it when
\* it is no lower than the floor, and hands one Identify to DiscordSocket.write.
C18_HelloStartsMonitorAndIdentifies ==
    [][\A i \in HelloIntervals :
          (connected_ /\ onMessage(kOpcodeHello, i)) =>
              /\ heartbeatIntervalMs_' =
                     IF i = Null THEN kDefaultHeartbeatIntervalMs ELSE i
              /\ heartbeatIntervalMs_' >= kMinimumHeartbeatMonitorMs =>
                     \E m \in MonitorIds :
                         /\ monitors[m].pc = "unused"
                         /\ monitors'[m].pc = "wait"
                         /\ heartbeatMonitorToken_' = m
              /\ CountOp(writeCalls', kOpcodeIdentify) =
                     CountOp(writeCalls, kOpcodeIdentify) + 1]_vars

\* C19: after a Reconnect or InvalidSession was received on an established
\* connection with the intent set (and a further retry loop is within the
\* bound), the raw socket is eventually no longer connected and a retry loop
\* is in flight, or the intent is withdrawn.
C19_ReconnectForcesNewAttempt ==
    (/\ last = "onMessage"
     /\ connected_
     /\ connect_
     /\ ~released
     /\ socketState = kStateConnected
     /\ \E l \in LoopIds : loops[l].pc = "unused") ~>
        \/ ~connect_
        \/ released
        \/ socketState # kStateConnected /\ \E l \in LoopIds : Suspended(l)

\* C21: once dispose() has been called no loop calls open() again and
\* nothing is handed to DiscordSocket.write, an open() that succeeds for a
\* loop afterwards leaves the raw socket closed, and the raw socket is never
\* connected on a disposed client.
C21_DisposeCancelsEverything ==
    /\ [][released =>
             /\ \A l \in LoopIds : loops'[l].opens = loops[l].opens
             /\ writeCalls' = writeCalls
             /\ transportWritten' = transportWritten]_vars
    /\ [][\A l \in LoopIds :
             (released /\ LoopOpenResolve(l, TRUE)) =>
                 /\ socketState' = kStateDisconnected
                 /\ loops'[l].pc = "returned"]_vars
    /\ [](released => socketState # kStateConnected)

\* dispose() came while an open() was outstanding and a heartbeat monitor
\* was waiting on an established connection; the open() has since succeeded.
C21_Witness ==
    /\ released
    /\ last = "task"
    /\ connected_
    /\ failedRequests = 0
    /\ socketState = kStateDisconnected
    /\ \E l \in LoopIds :
          loops[l].pc = "returned" /\ loops[l].result = "superseded" /\ loops[l].opens = 1
    /\ \E m \in MonitorIds : monitors[m].pc = "wait"

\* C22: a close of the transport that DiscordSocket observes on an
\* established connection is forwarded to the connection within the handler:
\* onConnectionClosed runs, so the connection is no longer marked connected
\* and its heartbeat monitor token is cleared.
C22_CloseIsForwarded ==
    [][(SocketOnClose /\ connected_) =>
          (~connected_' /\ heartbeatMonitorToken_' = Null)]_vars

\* C23: while a test is active, the first right answer makes its player the
\* winner and adds exactly one to that player's wins and none to any other's;
\* a later right answer of another player sends only the too-late message to
\* that player and changes no wins and no winner; a right answer repeated by
\* the winner sends nothing and changes nothing.  No test is won twice.
C23_FirstRightAnswerWins ==
    /\ [][\A player \in Players, message \in Messages :
             (/\ last' = "onPlayerText"
              /\ onPlayerText(player, message)
              /\ activeTest_ # Null
              /\ verify(activeTest_, message)) =>
                 /\ handled'
                 /\ activeTestWinnerName_ = NoWinner =>
                       /\ activeTestWinnerName_' = player
                       /\ reactionTests' =
                             [reactionTests EXCEPT ![player] = reactionTests[player] + 1]
                 /\ activeTestWinnerName_ \notin {NoWinner, player} =>
                       /\ sent' = <<[to |-> player, message |-> "REACTION_TEST_TOO_LATE"]>>
                       /\ UNCHANGED <<reactionTests, activeTestWinnerName_,
                                      activeTestWinnerTime_, timers>>
                 /\ activeTestWinnerName_ = player =>
                       /\ sent' = <<>>
                       /\ UNCHANGED <<reactionTests, activeTestWinnerName_,
                                      activeTestWinnerTime_, timers, activeTest_>>]_vars
    /\ [](reactionTests["Gunther"] + reactionTests["Lucy"] <= activeTestToken_)

\* Gunther has won the active test and Lucy has just been told she is too
\* late.
C23_Witness ==
    /\ last = "onPlayerText"
    /\ activeTest_ # Null
    /\ activeTestWinnerName_ = "Gunther"
    /\ reactionTests = [p \in Players |-> IF p = "Gunther" THEN 1 ELSE 0]
    /\ sent = <<[to |-> "Lucy", message |-> "REACTION_TEST_TOO_LATE"]>>

\* C24: a win schedules a start of the next test that is due no later than
\* delay + jitter seconds after it; a start that comes due with a human
\* player online starts and announces a test; and so, while no due test has
\* been skipped for want of a human player, the clock never passes the win
\* by more than delay + jitter seconds without a new test having started.
C24_NextTestFollowsWin ==
    /\ [][\A player \in Players, message \in Messages :
             (/\ last' = "onPlayerText"
              /\ onPlayerText(player, message)
              /\ activeTestWinnerName_ = NoWinner
              /\ activeTestWinnerName_' = player) =>
                 /\ Len(timers') = Len(timers) + 1
                 /\ timers'[Len(timers')].fn = "startReactionTest"
                 /\ timers'[Len(timers')].due <=
                       now + (settings.delay + settings.jitter) * 1000]_vars
    /\ [][\A random \in Random :
             (last' = "startReactionTest" /\ StartTimerFires(FALSE, random)) =>
                 /\ activeTest_' = activeTestToken_'
                 /\ activeTestStart_' = now
                 /\ sent' = <<[to |-> "all", message |-> "REACTION_TEST_ANNOUNCE"]>>]_vars
    /\ []((activeTestWinnerName_ # NoWinner /\ ~skipped) =>
             now <= activeTestWinnerTime_ + (settings.delay + settings.jitter) * 1000)

\* The second test has started on the schedule of Gunther's win of the
\* first, whose own timeout is still to come.
C24_Witness ==
    /\ last = "startReactionTest"
    /\ activeTest_ = 2
    /\ activeTestStart_ > 0
    /\ reactionTests["Gunther"] = 1
    /\ Len(timers) = 2
    /\ \A i \in DOMAIN timers : timers[i].fn = "reactionTestTimedOut"

\* C25 as stated: once a test has timed out the clock never passes the
\* timeout by more than delay + jitter seconds without a new test having
\* started.
C25_NextTestFollowsTimeout ==
    [](timedOutAt # Null =>
          now <= timedOutAt + (settings.delay + settings.jitter) * 1000)

\* C25, amended: a test is active for at most reaction_test_expire_sec
\* seconds, the timeout clears it, and while no test is active a player's
\* answer is not handled and wins nothing; while no due test has been
\* skipped for want of a human player, the clock never passes the timeout by
\* more than delay + jitter seconds without a new test having started.
C25_TimedOutTestIsCleared ==
    /\ [](activeTest_ # Null => now <= activeTestStart_ + settings.expire * 1000)
    /\ [][\A random \in Random :
             (last' = "reactionTestTimedOut" /\ TimeoutTimerFires(random)) =>
                 (activeTest_' = Null /\ timedOutAt' = now)]_vars
    /\ [][\A player \in Players, message \in Messages :
             (/\ last' = "onPlayerText"
              /\ activeTest_ = Null
              /\ onPlayerText(player, message)) =>
                 /\ ~handled'
                 /\ sent' = <<>>
                 /\ UNCHANGED <<reactionTests, activeTestWinnerName_,
                                activeTestWinnerTime_, timers>>]_vars
    /\ []((timedOutAt # Null /\ ~skipped) =>
             now <= timedOutAt + (settings.delay + settings.jitter) * 1000)

\* The first test timed out unanswered, and what a player said since was not
\* handled.
C25_Witness ==
    /\ last = "onPlayerText"
    /\ timedOutAt # Null
    /\ ~skipped
    /\ activeTest_ = Null
    /\ activeTestToken_ = 1
    /\ activeTestWinnerName_ = NoWinner
    /\ ~handled
    /\ \A p \in Players : reactionTests[p] = 0

\* C26 as stated: for every integer delay and jitter and every draw the
\* delay calculated lies between delay - jitter and delay + jitter.
C26_DelayWithinJitter ==
    [](last = "calculateDelayForNextTest" =>
          /\ settings.delay - settings.jitter <= delayForNextTest
          /\ delayForNextTest <= settings.delay + settings.jitter)

\* C26, amended: for every integer delay, every jitter that is not negative
\* and every draw the delay calculated lies between delay - jitter and
\* delay + jitter.
C26_DelayWithinPositiveJitter ==
    []((last = "calculateDelayForNextTest" /\ settings.jitter >= 0) =>
          /\ settings.delay - settings.jitter <= delayForNextTest
          /\ delayForNextTest <= settings.delay + settings.jitter)

\* The longest delay of a jitter of two seconds has been calculated.
C26_Witness ==
    /\ last = "calculateDelayForNextTest"
    /\ settings.jitter = 2
    /\ delayForNextTest = settings.delay + 1

\* C27: whenever a retry loop whose token is no longer the socket's resumes,
\* from its initial wait, from open() or from its retry wait, it returns as
\* superseded: it calls open() no more, does not end as succeeded, and
\* leaves the socket's token, null or that of a newer loop, as it is.
C27_SupersededLoopOnlyReturns ==
    [][\A l \in LoopIds :
          (/\ connectionToken_ # l
           /\ \/ LoopInitialWake(l)
              \/ \E connected \in BOOLEAN : LoopOpenResolve(l, connected)
              \/ LoopRetryWake(l)) =>
              /\ loops'[l].opens = loops[l].opens
              /\ loops'[l].pc = "returned"
              /\ loops'[l].result = "superseded"
              /\ connectionToken_' = connectionToken_]_vars

\* The first loop has come back from its open() and returned as superseded
\* while the second, which holds the token, is still in its initial wait.
C27_Witness ==
    /\ last = "task"
    /\ loops[1].pc = "returned"
    /\ loops[1].result = "superseded"
    /\ loops[1].opens = 1
    /\ connectionToken_ = 2
    /\ loops[2].pc = "initialWait"

\* C28: a Hello without heartbeat_interval sets the interval to 41250 ms and
\* starts a heartbeat monitor that waits for that interval; nothing is
\* thrown, and the connection's intent, its connected and connecting flags
\* and the socket are as they were.
C28_HelloWithoutIntervalUsesDefault ==
    [][onMessage(kOpcodeHello, Null) =>
          /\ heartbeatIntervalMs_' = 41250
          /\ heartbeatMonitorToken_' \in MonitorIds
          /\ heartbeatMonitorToken_' # heartbeatMonitorToken_
          /\ monitors'[heartbeatMonitorToken_'].pc = "wait"
          /\ monitors'[heartbeatMonitorToken_'].delay = 41250
          /\ thrown' = thrown
          /\ UNCHANGED <<connect_, connected_, connecting_, sockVars>>]_vars

\* On a connected client a Hello has started a monitor on the default
\* interval.
C28_Witness ==
    /\ last = "onMessage"
    /\ connected_
    /\ heartbeatIntervalMs_ = kDefaultHeartbeatIntervalMs
    /\ heartbeatMonitorToken_ \in MonitorIds
    /\ monitors[heartbeatMonitorToken_].pc = "wait"
    /\ monitors[heartbeatMonitorToken_].delay = kDefaultHeartbeatIntervalMs
    /\ thrown = {}

\* C29: when the active monitor of a connected client comes back from a
\* full interval's wait after a Heartbeat was sent and no HeartbeatAck has
\* been received, the connection is treated as failed: it is no longer
\* marked connected, or the socket is closed, or a connection attempt starts.
C29_MissingAckFailsConnection ==
    [][\A m \in MonitorIds :
          (/\ HeartbeatWakeWithin(m, MaxWatchdogWrites)
           /\ heartbeatMonitorToken_ = m
           /\ connected_
           /\ \E i \in DOMAIN writeCalls : writeCalls[i].op = kOpcodeHeartbeat
           /\ heartbeatAckTime_ = Null) =>
              \/ ~connected_'
              \/ socketState' # socketState
              \/ connectionToken_' # connectionToken_
              \/ loops' # loops]_vars

\* C30: a message whose opcode the connection does not know changes nothing
\* of the connection, its heartbeat monitors, the socket or the retry loops,
\* writes nothing and throws nothing.
C30_UnknownOpcodeIsIgnored ==
    [][onMessage(kOpcodeUnknown, Null) =>
          UNCHANGED <<connVars, sockVars, taskVars, writeCalls, transportWritten,
                      thrown>>]_vars

\* A connected client that has had no Hello and no HeartbeatAck and has
\* written nothing has received a message: one that it does not handle.
C30_Witness ==
    /\ last = "onMessage"
    /\ connected_
    /\ heartbeatIntervalMs_ = Null
    /\ heartbeatMonitorToken_ = Null
    /\ heartbeatAckTime_ = Null
    /\ writeCalls = <<>>
    /\ thrown = {}

\* C31: a timeout callback that runs while the active test has not been
\* active for reaction_test_expire_sec seconds was armed for an earlier test;
\* it leaves the active test as it is and schedules nothing.
C31_StaleTimeoutIsIgnored ==
    [][\A random \in Random :
          (/\ last' = "reactionTestTimedOut"
           /\ activeTest_ # Null
           /\ now < activeTestStart_ + settings.expire * 1000
           /\ TimeoutTimerFires(random)) =>
              /\ activeTest_' = activeTest_
              /\ timers' = Pending]_vars

\* C32: a start callback that runs while a start scheduled after it is
\* pending has expired: it starts no test, announces nothing and schedules
\* nothing.
C32_EarlierStartIsExpired ==
    [][\A skip \in BOOLEAN, random \in Random :
          (/\ last' = "startReactionTest"
           /\ \E j \in DOMAIN timers :
                 j > NextTimer /\ timers[j].fn = "startReactionTest"
           /\ StartTimerFires(skip, random)) =>
              /\ activeTest_' = activeTest_
              /\ sent' = <<>>
              /\ timers' = Pending]_vars

\* C33: a start or timeout callback that runs after dispose(), while the
\* token is still the null dispose() left in it, starts no test, announces
\* nothing and schedules nothing.
C33_NothingStartsAfterDispose ==
    /\ [][\A skip \in BOOLEAN, random \in Random :
             (/\ last' = "startReactionTest"
              /\ activeTestToken_ = Null
              /\ StartTimerFires(skip, random)) =>
                 /\ activeTest_' = activeTest_
                 /\ sent' = <<>>
                 /\ timers' = Pending]_vars
    /\ [][\A random \in Random :
             (/\ last' = "reactionTestTimedOut"
              /\ activeTestToken_ = Null
              /\ TimeoutTimerFires(random)) =>
                 timers' = Pending]_vars

\* C34: while the connection has not been disposed of, its connecting flag
\* is set only while a retry loop of the socket holds the connection token.
C34_ConnectingOnlyWhileLoopInFlight ==
    []((connecting_ /\ ~released) => connectionToken_ # Null)

\* C35: createHouse sets a house only on a location that is known to the
\* manager and not occupied at that moment, however the database calls of
\* concurrent createHouse and removeLocation calls are answered.
C35_HouseOnlyOnFreeKnownLocation ==
    [][\A c \in 1..MaxCalls :
          (last' = "createHouse.resolves" /\ createHouseResolves(c)) =>
              /\ calls[c].location \in locations_
              /\ isAvailable(calls[c].location)]_vars

\* C36: forceEnterHouse returns true and enters the house exactly when the
\* player stands on a location; otherwise it returns false and enters nothing.
C36_EntersExactlyWhenOnLocation ==
    [][\A player \in HousePlayers, current \in Locations \cup {NoLocation} :
          (last' = "forceEnterHouse" /\ forceEnterHouse(player, current)) =>
              IF current # NoLocation
              THEN /\ calls'[Len(calls')].value = "true"
                   /\ <<player, current>> \in entered'
              ELSE /\ calls'[Len(calls')].value = "false"
                   /\ entered' = entered]_vars

\* C37: createHouse by an unregistered player, for an unknown location or for
\* an occupied location throws, calls no database and changes neither the
\* locations nor any house.
C37_RejectedCreateHouseChangesNothing ==
    [][\A player \in HousePlayers, location \in Locations :
          (/\ last' = "createHouse"
           /\ createHouse(player, location)
           /\ \/ ~isRegistered(player)
              \/ location \notin locations_
              \/ ~isAvailable(location)) =>
              /\ calls'[Len(calls')].pc = "threw"
              /\ databaseCalls' = databaseCalls
              /\ locations_' = locations_
              /\ houseSettings' = houseSettings]_vars

\* createHouse has thrown for an unregistered player and then for an occupied
\* location, and no database call was made.
C37_Witness ==
    /\ last = "createHouse"
    /\ Len(calls) = 2
    /\ calls[1].value = "The |player| must be registered in order to own a house."
    /\ calls[2].value = "The given |location| already is occupied by another player."
    /\ \A c \in 1..2 : calls[c].pc = "threw"
    /\ databaseCalls = 0

\* The bots that are in one of the two sets before a step and not after it.
Moved(before, after) == {bot \in Bots : (bot \in Members(before)) # (bot \in Members(after))}

\* C38: while the Runtime has not been disposed of, no bot is both active and
\* available, no bot is listed twice and the two sets together hold exactly
\* the bots of the configuration; a slave request moves at most one bot.
C38_BotsArePartitioned ==
    /\ [](~runtimeDisposed =>
            /\ Members(activeBots_) \cap Members(availableBots_) = {}
            /\ Members(activeBots_) \cup Members(availableBots_) = Bots
            /\ Len(activeBots_) + Len(availableBots_) = Len(configuration_))
    /\ [][(last' \in {"requestSlaveIncrease", "requestSlaveDecrease"}
           /\ (requestSlaveIncrease \/ requestSlaveDecrease)) =>
              /\ Cardinality(Moved(activeBots_, activeBots_')) <= 1
              /\ Moved(availableBots_, availableBots_') = Moved(activeBots_, activeBots_')]_vars

\* Slaves were started and the Runtime was then disconnected: several bots
\* are available again next to the required ones.
C38_Witness ==
    /\ last = "diconnect"
    /\ ~runtimeDisposed
    /\ Len(availableBots_) >= 2
    /\ activeBots_ # <<>>
    /\ \E bot \in Members(availableBots_) : botCalls[bot].last = "disconnect"

\* C39: every available bot was disconnected by the last connect() or
\* disconnect() call made to it, or never got one; a bot that an operation
\* connects is active after the operation.
C39_AvailableBotsAreNotConnected ==
    \A bot \in Bots :
        /\ bot \in Members(availableBots_) => botCalls[bot].last \in {"none", "disconnect"}
        /\ botCalls[bot].issued = "connect" => bot \in Members(activeBots_)

\* A slave that was connected has been made available again by a request.
C39_Witness ==
    /\ last = "requestSlaveDecrease"
    /\ \E bot \in Members(availableBots_) : botCalls[bot].issued = "disconnect"
    /\ \E bot \in Members(activeBots_) : botCalls[bot].last = "connect"

\* C40: while the Runtime has not been disposed of, the master and every bot
\* that is not optional are active, and masterBot is a bot whenever the
\* configuration has a master.
C40_RequiredBotsStayActive ==
    ~runtimeDisposed =>
        /\ \A bot \in Bots : IsRequired(bot) => bot \in Members(activeBots_)
        /\ (\E bot \in Bots : IsMaster(bot)) => masterBot # Null

\* A decrease request has moved a slave while an optional master and a
\* required bot stay active.
C40_Witness ==
    /\ last = "requestSlaveDecrease"
    /\ ~runtimeDisposed
    /\ \E bot \in Members(availableBots_) : botCalls[bot].issued = "disconnect"
    /\ \E bot \in Bots : configuration_[bot].master /\ configuration_[bot].optional
    /\ \E bot \in Bots : ~configuration_[bot].master /\ ~configuration_[bot].optional
    /\ masterBot # Null

====
